---- MODULE Spec2Model ----
(***************************************************************************)
(* Africure Pharma backend: the form-submission pipelines                  *)
(*   POST /api/contact        (contactRoutes.js -> ContactController)      *)
(*   POST /api/careers/apply  (careerRoutes.js  -> CareerController)       *)
(* with their rate limiters, sanitizers, validators, the Supabase insert   *)
(* (and its stored-procedure fallback) and the resume upload; the other    *)
(* routes of the server, the admin methods of CareerController, the        *)
(* reachability probe of SupabaseConfig, the server-wide limiter in front  *)
(* of GET /health, and the ProductManager of the products page.            *)
(*                                                                         *)
(* Strings are sequences of one-character strings, so that trim,           *)
(* toLowerCase and the regular expressions are computed, not assumed.      *)
(* A request field is a record [def, s]: def = FALSE is JavaScript's       *)
(* undefined.  Time is in milliseconds.                                    *)
(***************************************************************************)
EXTENDS Integers, Sequences, FiniteSets, TLC

\* ------------------------------------------------------------------------
\* Bounds of the model (not program constants)
\* ------------------------------------------------------------------------
TicksPerWindow == 2
MaxTicks == 2
MaxHits == 4
MaxRows == 1
MaxFiles == 1
MaxOther == 2
\* invocations of testConnection a behaviour follows
MaxProbes == 3
\* requests for GET /health a behaviour follows
MaxTop == 101
\* largest currentPage of the ProductManager a behaviour follows
MaxPage == 3
\* rows Career_Applications holds when the admin calls begin
MaxSeed == 2

\* ------------------------------------------------------------------------
\* Characters and strings
\* ------------------------------------------------------------------------
UpperCase == <<"A","B","C","D","E","F","G","H","I","J","K","L","M",
               "N","O","P","Q","R","S","T","U","V","W","X","Y","Z">>

LowerCase == <<"a","b","c","d","e","f","g","h","i","j","k","l","m",
               "n","o","p","q","r","s","t","u","v","w","x","y","z">>

Digits == {"0","1","2","3","4","5","6","7","8","9"}

Range(f) == {f[i] : i \in DOMAIN f}

IsLetter(c) == c \in Range(UpperCase) \cup Range(LowerCase)

IsDigit(c) == c \in Digits

\* \s of the regular expressions and the characters String.trim removes
IsSpace(c) == c \in {" ", "\t", "\n"}

\* \w of the regular expressions
IsWord(c) == IsLetter(c) \/ IsDigit(c) \/ c = "_"

LowerChar(c) ==
  LET IsUpper(c0) == c0 \in Range(UpperCase)
  IN
  IF IsUpper(c)
  THEN LowerCase[CHOOSE i \in DOMAIN UpperCase : UpperCase[i] = c]
  ELSE c

\* String.prototype.toLowerCase
ToLower(s) == [i \in DOMAIN s |-> LowerChar(s[i])]

RECURSIVE TrimStart(_)
TrimStart(s) ==
  IF s # <<>> /\ IsSpace(Head(s)) THEN TrimStart(Tail(s)) ELSE s

RECURSIVE TrimEnd(_)
TrimEnd(s) ==
  IF s # <<>> /\ IsSpace(s[Len(s)])
  THEN TrimEnd(SubSeq(s, 1, Len(s) - 1))
  ELSE s

\* String.prototype.trim
Trim(s) == TrimEnd(TrimStart(s))

AllChars(s, P(_)) == \A i \in DOMAIN s : P(s[i])

CountChar(s, c) == Cardinality({i \in DOMAIN s : s[i] = c})

IndexOf(s, c) ==
  IF \E i \in DOMAIN s : s[i] = c
  THEN CHOOSE i \in DOMAIN s : s[i] = c /\ \A j \in 1..(i - 1) : s[j] # c
  ELSE 0

RECURSIVE RemoveChar(_, _)
RemoveChar(s, c) ==
  IF s = <<>> THEN <<>>
  ELSE IF Head(s) = c THEN RemoveChar(Tail(s), c)
  ELSE <<Head(s)>> \o RemoveChar(Tail(s), c)

\* s starts with the characters of p at (1-based) position i
MatchAt(s, i, p) ==
  /\ i + Len(p) - 1 <= Len(s)
  /\ \A k \in 1..Len(p) : LowerChar(s[i + k - 1]) = p[k]

\* ------------------------------------------------------------------------
\* Request fields
\* ------------------------------------------------------------------------
Undefined == [def |-> FALSE, s |-> <<>>]

Str(s) == [def |-> TRUE, s |-> s]

\* express-validator's toString of a field value: undefined becomes ''
ToStr(v) == IF v.def THEN v.s ELSE <<>>

\* JavaScript truthiness of a string-or-undefined value
Truthy(v) == v.def /\ v.s # <<>>

\* ------------------------------------------------------------------------
\* Sanitizers (String.replace with a global, case-insensitive pattern:
\* one left-to-right pass, the scan resumes after each removed match)
\* ------------------------------------------------------------------------
ScriptOpen == <<"<","s","c","r","i","p","t">>

ScriptClose == <<"<","/","s","c","r","i","p","t",">">>

JsPrefix == <<"j","a","v","a","s","c","r","i","p","t",":">>

\* Length of the match of /<tag\b[^<]*(?:(?!<\/tag>)<[^<]*)*<\/tag>/i that
\* starts at i (0 when there is none): the opening word, a word boundary,
\* and everything up to and including the first closing tag.
TagMatchLen(s, i, open, close) ==
  LET b == i + Len(open)
      ends == {j \in b..Len(s) : MatchAt(s, j, close)}
  IN IF /\ MatchAt(s, i, open)
        /\ b <= Len(s)
        /\ ~IsWord(s[b])
        /\ ends # {}
     THEN (CHOOSE j \in ends : \A k \in ends : j <= k) + Len(close) - i
     ELSE 0

RECURSIVE StripTag(_, _, _, _)
StripTag(s, i, open, close) ==
  IF i > Len(s) THEN <<>>
  ELSE LET n == TagMatchLen(s, i, open, close)
       IN IF n > 0 THEN StripTag(s, i + n, open, close)
          ELSE <<s[i]>> \o StripTag(s, i + 1, open, close)

RECURSIVE StripJs(_, _)
StripJs(s, i) ==
  LET \* /javascript:/i at i
      JsMatchLen(s0, i0) == IF MatchAt(s0, i0, JsPrefix) THEN Len(JsPrefix) ELSE 0
  IN
  IF i > Len(s) THEN <<>>
  ELSE LET n == JsMatchLen(s, i)
       IN IF n > 0 THEN StripJs(s, i + n)
          ELSE <<s[i]>> \o StripJs(s, i + 1)

RECURSIVE StripOn(_, _)
StripOn(s, i) ==
  LET \* /on\w+\s*=/i at i: "on", the longest run of word characters (at least
      \* one), the longest run of white space, "="
      OnMatchLen(s0, i0) ==
        LET w0 == i0 + 2
            nonWord == {j \in w0..Len(s0) : ~IsWord(s0[j])}
            w1 == IF nonWord = {} THEN Len(s0) + 1
                  ELSE CHOOSE j \in nonWord : \A k \in nonWord : j <= k
            nonSpace == {j \in w1..Len(s0) : ~IsSpace(s0[j])}
            e == IF nonSpace = {} THEN Len(s0) + 1
                 ELSE CHOOSE j \in nonSpace : \A k \in nonSpace : j <= k
        IN IF /\ MatchAt(s0, i0, <<"o","n">>)
              /\ w1 > w0
              /\ e <= Len(s0)
              /\ s0[e] = "="
           THEN e + 1 - i0
           ELSE 0
  IN
  IF i > Len(s) THEN <<>>
  ELSE LET n == OnMatchLen(s, i)
       IN IF n > 0 THEN StripOn(s, i + n)
          ELSE <<s[i]>> \o StripOn(s, i + 1)

\* Object.keys(req.body).forEach: every string field is replaced
sanitizeInput(b) ==
  LET \* middleware/validation.js sanitizeInput, one string
      sanitizeInputString(s) ==
        LET IframeClose == <<"<","/","i","f","r","a","m","e",">">>
        IN
        LET IframeOpen == <<"<","i","f","r","a","m","e">>
        IN
        StripOn(StripJs(StripTag(StripTag(s, 1, ScriptOpen, ScriptClose),
                                 1, IframeOpen, IframeClose), 1), 1)
  IN
  [k \in DOMAIN b |-> IF b[k].def THEN Str(sanitizeInputString(b[k].s)) ELSE b[k]]

sanitizeCareerInput(b) ==
  LET \* routes/careerRoutes.js sanitizeCareerInput, one string
      sanitizeCareerString(s) ==
        StripOn(StripJs(StripTag(s, 1, ScriptOpen, ScriptClose), 1), 1)
  IN
  [k \in DOMAIN b |-> IF b[k].def THEN Str(sanitizeCareerString(b[k].s)) ELSE b[k]]

\* ------------------------------------------------------------------------
\* express-validator / validator.js building blocks
\* ------------------------------------------------------------------------
\* one entry of validationResult(req).array()
VErr(f, m, v) == [kind |-> "object", field |-> f, message |-> m, value |-> v]

\* one entry of the service-level validators: a bare message string
SErr(m) == [kind |-> "string", field |-> "", message |-> m, value |-> Undefined]

\* isLength({min, max})
IsLength(s, min, max) == Len(s) >= min /\ Len(s) <= max

\* validator.js isEmail, reduced to its shape test: one "@", a non-empty
\* local part, no white space, a dotted domain whose last label has at
\* least two letters
IsEmail(s) ==
  LET LastIndexOf(s0, c) ==
        IF \E i \in DOMAIN s0 : s0[i] = c
        THEN CHOOSE i \in DOMAIN s0 : s0[i] = c /\ \A j \in (i + 1)..Len(s0) : s0[j] # c
        ELSE 0
  IN
  LET at == IndexOf(s, "@")
      dom == SubSeq(s, at + 1, Len(s))
      dot == LastIndexOf(dom, ".")
      tld == SubSeq(dom, dot + 1, Len(dom))
  IN /\ CountChar(s, "@") = 1
     /\ at > 1
     /\ \A i \in DOMAIN s : ~IsSpace(s[i])
     /\ dot > 1
     /\ Len(tld) >= 2
     /\ AllChars(tld, IsLetter)

\* validator.js normalizeEmail with its default options: the address is
\* lower-cased; for gmail.com the sub-address ("+tag") and the dots of the
\* local part are removed as well
NormalizeEmail(s) ==
  LET GmailDomain == <<"g","m","a","i","l",".","c","o","m">>
  IN
  LET l == ToLower(s)
      at == IndexOf(l, "@")
      user == SubSeq(l, 1, at - 1)
      dom == SubSeq(l, at + 1, Len(l))
      plus == IndexOf(user, "+")
      noTag == IF plus > 0 THEN SubSeq(user, 1, plus - 1) ELSE user
  IN IF dom = GmailDomain
     THEN RemoveChar(noTag, ".") \o <<"@">> \o dom
     ELSE l

\* validator.js escape (the backslash and the back quote, which it also
\* replaces, are not in the alphabet of the model)
RECURSIVE Escape(_)
Escape(s) ==
  LET EscapeChar(c) ==
        CASE c = "&" -> <<"&","a","m","p",";">>
          [] c = "<" -> <<"&","l","t",";">>
          [] c = ">" -> <<"&","g","t",";">>
          [] c = "\"" -> <<"&","q","u","o","t",";">>
          [] c = "'" -> <<"&","#","x","2","7",";">>
          [] c = "/" -> <<"&","#","x","2","F",";">>
          [] OTHER -> <<c>>
  IN
             IF s = <<>> THEN <<>> ELSE EscapeChar(Head(s)) \o Escape(Tail(s))

\* /^[a-zA-Z\s\-\.\']+$/ (contact) and /^[a-zA-Z\s.'-]+$/ (career)
NamePattern(s) ==
  /\ s # <<>>
  /\ \A i \in DOMAIN s : IsLetter(s[i]) \/ IsSpace(s[i]) \/ s[i] \in {"-", ".", "'"}

\* /^[\+]?[\d\s\-\(\)]+$/
PhonePattern(s) ==
  LET d == IF s # <<>> /\ Head(s) = "+" THEN Tail(s) ELSE s
  IN /\ d # <<>>
     /\ \A i \in DOMAIN d : IsDigit(d[i]) \/ IsSpace(d[i]) \/ d[i] \in {"-", "(", ")"}

\* /^[^\s@]+@[^\s@]+\.[^\s@]+$/
SimpleEmailPattern(s) ==
  LET at == IndexOf(s, "@")
      dom == SubSeq(s, at + 1, Len(s))
  IN /\ CountChar(s, "@") = 1
     /\ at > 1
     /\ \A i \in DOMAIN s : ~IsSpace(s[i])
     /\ \E i \in 2..(Len(dom) - 1) : dom[i] = "."

\* a sequence with the entries whose condition holds, in the given order
RECURSIVE Collect(_)
Collect(cs) ==
  IF cs = <<>> THEN <<>>
  ELSE (IF Head(cs)[1] THEN <<Head(cs)[2]>> ELSE <<>>) \o Collect(Tail(cs))

\* ------------------------------------------------------------------------
\* Route-level validation chains.  A chain runs all its validators on the
\* current value (there is no bail()), the sanitizers replace the value in
\* req.body, and every failed validator adds one entry.
\* ------------------------------------------------------------------------
\* middleware/validation.js validateContactForm
validateContactForm(b) ==
  LET \* /^[\+]?[1-9][\d]{0,15}$/
      ContactPattern(s) ==
        LET d == IF s # <<>> /\ Head(s) = "+" THEN Tail(s) ELSE s
        IN /\ d # <<>>
           /\ Head(d) \in Digits \ {"0"}
           /\ Len(d) <= 16
           /\ AllChars(d, IsDigit)
  IN
  LET name == Trim(ToStr(b.fullName))
      mail == Trim(ToStr(b.email))
      norm == IF IsEmail(mail) THEN NormalizeEmail(mail) ELSE mail
      tel == Trim(ToStr(b.contact))
      msg == Trim(ToStr(b.message))
  IN [body |-> [fullName |-> Str(name),
                email |-> Str(norm),
                contact |-> Str(tel),
                message |-> Str(Escape(msg))],
      errors |-> Collect(<<
        <<name = <<>>,
          VErr("fullName", "Full name is required", Str(name))>>,
        <<~IsLength(name, 2, 255),
          VErr("fullName", "Full name must be between 2 and 255 characters", Str(name))>>,
        <<~NamePattern(name),
          VErr("fullName", "Full name can only contain letters, spaces, hyphens, dots, and apostrophes", Str(name))>>,
        <<mail = <<>>,
          VErr("email", "Email is required", Str(mail))>>,
        <<~IsEmail(mail),
          VErr("email", "Please provide a valid email address", Str(mail))>>,
        <<~IsLength(norm, 0, 255),
          VErr("email", "Email must not exceed 255 characters", Str(norm))>>,
        <<tel = <<>>,
          VErr("contact", "Contact number is required", Str(tel))>>,
        <<~ContactPattern(tel),
          VErr("contact", "Please provide a valid contact number (10-16 digits)", Str(tel))>>,
        <<~IsLength(tel, 10, 16),
          VErr("contact", "Contact number must be between 10 and 16 digits", Str(tel))>>,
        <<msg = <<>>,
          VErr("message", "Message is required", Str(msg))>>,
        <<~IsLength(msg, 10, 2000),
          VErr("message", "Message must be between 10 and 2000 characters", Str(msg))>> >>)]

\* a consent rule that lets every value pass
consentAnyValue(v) == TRUE

\* body('consent').notEmpty()
consentNotEmpty(v) == ToStr(v) # <<>>

\* routes/careerRoutes.js validateCareerApplication
validateCareerApplication(b) ==
  LET Qualifications ==
        {<<"b","p","h","a","r","m">>,
         <<"m","p","h","a","r","m">>,
         <<"m","b","a">>,
         <<"b","s","c">>,
         <<"m","s","c">>,
         <<"b","c","o","m">>,
         <<"m","c","o","m">>,
         <<"c","a">>,
         <<"e","n","g","i","n","e","e","r","i","n","g">>,
         <<"o","t","h","e","r">>}
  IN
  LET Experiences ==
        {<<"0","-","1">>,
         <<"2","-","3">>,
         <<"4","-","5">>,
         <<"6","-","7">>,
         <<"8","-","1","0">>,
         <<"1","0","+">>}
  IN
  LET Positions ==
        {<<"s","u","p","p","l","y","-","c","h","a","i","n">>,
         <<"e","x","e","c","u","t","i","v","e","-","c","e","o">>,
         <<"e","x","e","c","u","t","i","v","e","-","d","i","r","e","c","t","o","r","s">>,
         <<"m","a","n","a","g","e","r","-","e","h","s">>,
         <<"m","a","n","a","g","e","r","-","h","r","d">>,
         <<"m","a","n","a","g","e","r","-","a","c","c","o","u","n","t","s">>,
         <<"m","a","n","a","g","e","r","-","r","e","g","u","l","a","t","o","r","y">>,
         <<"m","a","n","a","g","e","r","-","p","r","o","c","u","r","e","m","e","n","t">>,
         <<"t","r","a","i","n","e","e","-","p","r","o","c","u","r","e","m","e","n","t">>,
         <<"b","u","s","i","n","e","s","s","-","d","e","v","e","l","o","p","m","e","n","t">>,
         <<"m","a","n","a","g","e","r","-","e","n","g","i","n","e","e","r","i","n","g">>,
         <<"d","e","p","u","t","y","-","q","a">>,
         <<"o","t","h","e","r">>}
  IN
  LET name == Trim(ToStr(b.fullName))
      mail == Trim(ToStr(b.email))
      norm == IF IsEmail(mail) THEN NormalizeEmail(mail) ELSE mail
      tel == Trim(ToStr(b.phone))
      loc == Trim(ToStr(b.location))
      pos == ToStr(b.position)
      exp == ToStr(b.experience)
      qual == ToStr(b.qualification)
      cov == Trim(ToStr(b.coverLetter))
  IN [body |-> [fullName |-> Str(name),
                email |-> Str(norm),
                phone |-> Str(tel),
                location |-> Str(loc),
                position |-> b.position,
                experience |-> b.experience,
                qualification |-> b.qualification,
                coverLetter |-> IF b.coverLetter.def THEN Str(cov) ELSE b.coverLetter,
                consent |-> b.consent],
      errors |-> Collect(<<
        <<name = <<>>,
          VErr("fullName", "Full name is required", Str(name))>>,
        <<~IsLength(name, 2, 100),
          VErr("fullName", "Full name must be between 2 and 100 characters", Str(name))>>,
        <<~NamePattern(name),
          VErr("fullName", "Full name can only contain letters, spaces, dots, hyphens, and apostrophes", Str(name))>>,
        <<mail = <<>>,
          VErr("email", "Email is required", Str(mail))>>,
        <<~IsEmail(mail),
          VErr("email", "Please provide a valid email address", Str(mail))>>,
        <<tel = <<>>,
          VErr("phone", "Phone number is required", Str(tel))>>,
        <<~IsLength(tel, 10, 15),
          VErr("phone", "Phone number must be between 10 and 15 digits", Str(tel))>>,
        <<~PhonePattern(tel),
          VErr("phone", "Please provide a valid phone number", Str(tel))>>,
        <<loc = <<>>,
          VErr("location", "Current location is required", Str(loc))>>,
        <<~IsLength(loc, 2, 100),
          VErr("location", "Location must be between 2 and 100 characters", Str(loc))>>,
        <<pos = <<>>,
          VErr("position", "Position is required", b.position)>>,
        <<pos \notin Positions,
          VErr("position", "Please select a valid position", b.position)>>,
        <<exp = <<>>,
          VErr("experience", "Experience is required", b.experience)>>,
        <<exp \notin Experiences,
          VErr("experience", "Please select a valid experience range", b.experience)>>,
        <<qual = <<>>,
          VErr("qualification", "Qualification is required", b.qualification)>>,
        <<qual \notin Qualifications,
          VErr("qualification", "Please select a valid qualification", b.qualification)>>,
        <<b.coverLetter.def /\ ~IsLength(cov, 0, 2000),
          VErr("coverLetter", "Cover letter must not exceed 2000 characters", Str(cov))>>,
        <<~consentNotEmpty(b.consent),
          VErr("consent", "You must agree to the terms and conditions", b.consent)>> >>)]

\* ------------------------------------------------------------------------
\* Service-level validation (plain message strings, config.validation)
\* ------------------------------------------------------------------------
\* services/contactService.js ContactService.validateContactData
validateContactData(b) ==
  LET \* /^[a-zA-Z\s]+$/
      LettersPattern(s) ==
        /\ s # <<>>
        /\ \A i \in DOMAIN s : IsLetter(s[i]) \/ IsSpace(s[i])
  IN
  Collect(<<
    <<~Truthy(b.fullName) \/ Len(Trim(b.fullName.s)) < 2,
      SErr("Full name must be at least 2 characters long")>>,
    <<Truthy(b.fullName) /\ Len(b.fullName.s) > 50,
      SErr("Full name must not exceed 50 characters")>>,
    <<Truthy(b.fullName) /\ ~LettersPattern(b.fullName.s),
      SErr("Full name can only contain letters and spaces")>>,
    <<~Truthy(b.email) \/ ~SimpleEmailPattern(b.email.s),
      SErr("Please provide a valid email address")>>,
    <<~Truthy(b.contact) \/ Len(b.contact.s) < 10,
      SErr("Contact number must be at least 10 digits long")>>,
    <<Truthy(b.contact) /\ ~PhonePattern(b.contact.s),
      SErr("Please provide a valid contact number")>>,
    <<~Truthy(b.message) \/ Len(Trim(b.message.s)) < 10,
      SErr("Message must be at least 10 characters long")>>,
    <<Truthy(b.message) /\ Len(b.message.s) > 1000,
      SErr("Message must not exceed 1000 characters")>> >>)

\* services/careerService.js CareerService.validateApplicationData
validateApplicationData(b) ==
  LET RequiredMsg(f0) ==
        CASE f0 = "fullName" -> "full name is required"
          [] OTHER -> f0 \o " is required"
  IN
  Collect(
    [i \in 1..7 |->
       LET f == <<"fullName", "email", "phone", "location",
                  "position", "experience", "qualification">>[i]
       IN <<~Truthy(b[f]) \/ Trim(b[f].s) = <<>>, SErr(RequiredMsg(f))>>]
    \o <<
    <<Truthy(b.email) /\ ~SimpleEmailPattern(b.email.s),
      SErr("Please provide a valid email address")>>,
    <<Truthy(b.phone) /\ ~PhonePattern(b.phone.s),
      SErr("Please provide a valid phone number")>>,
    <<~Truthy(b.consent),
      SErr("You must agree to the terms and conditions")>> >>)

\* ------------------------------------------------------------------------
\* Inputs: the bodies, attachments, client addresses and environments the
\* model draws requests from
\* ------------------------------------------------------------------------
Endpoints == {"contact", "career"}

Clients == {"203.0.113.7"}

\* process.env.NODE_ENV ("unset": the variable is not set)
NodeEnvs == {"unset", "development", "production", "test"}

\* the type of the primary key the backend assigns to Contact_Us rows
IdTypes == {"integer", "uuid"}

ValidContactBody ==
  [fullName |-> Str(<<"J","o","h","n"," ","D","o","e">>),
   email |-> Str(<<" ","J","O","H","N","@","E","x","a","m","p","l","e",".","c","o","m">>),
   contact |-> Str(<<"+","1","4","1","5","5","5","5","0","1","0","0">>),
   message |-> Str(<<"H","e","l","l","o",","," ","a"," ","q","u","e","s","t","i","o","n",".">>)]

ContactBodies ==
  {ValidContactBody,
   [ValidContactBody EXCEPT !.fullName = Str(<<"J","o","e"," ","o","n","x","=","D","o","e">>)],
   [ValidContactBody EXCEPT !.email = Str(<<"j","o","h","n",".","e","x","a","m","p","l","e">>)],
   [ValidContactBody EXCEPT !.message = Undefined]}

ValidCareerBody ==
  [fullName |-> Str(<<"A","m","i","n","a"," ","O","k","o","r","o">>),
   email |-> Str(<<"A","m","i","n","a","@","E","x","a","m","p","l","e",".","c","o","m"," ">>),
   phone |-> Str(<<"+","2","5","4"," ","7","0","0"," ","1","1","1","2","2","2">>),
   location |-> Str(<<"N","a","i","r","o","b","i">>),
   position |-> Str(<<"d","e","p","u","t","y","-","q","a">>),
   experience |-> Str(<<"4","-","5">>),
   qualification |-> Str(<<"m","p","h","a","r","m">>),
   coverLetter |-> Undefined,
   consent |-> Str(<<"o","n">>)]

CareerBodies ==
  {ValidCareerBody,
   [ValidCareerBody EXCEPT !.consent = Undefined],
   [ValidCareerBody EXCEPT !.position = Str(<<"j","a","n","i","t","o","r">>)]}

MiB == 1024 * 1024

NoFile == [present |-> FALSE, mimetype |-> "", size |-> 0, originalname |-> <<>>]

PdfFile(n) ==
  [present |-> TRUE, mimetype |-> "application/pdf", size |-> n,
   originalname |-> <<"c","v",".","p","d","f">>]

Files ==
  {NoFile,
   PdfFile(2 * MiB),
   [PdfFile(4 * MiB) EXCEPT !.mimetype = "text/plain"]}

BodiesOf(ep) == IF ep = "contact" THEN ContactBodies ELSE CareerBodies

\* only the career form is multipart and can carry an attachment
FilesOf(ep) == IF ep = "contact" THEN {NoFile} ELSE Files

\* ------------------------------------------------------------------------
\* State
\* ------------------------------------------------------------------------
VARIABLES
  env,          \* process.env.NODE_ENV
  idType,       \* primary-key type of the Contact_Us table ("unknown" until
                \* the backend has assigned the first key)
  now,          \* Date.now()
  store,        \* the MemoryStore of each submission limiter: [ep][ip]
  admitLog,     \* history: times at which each limiter stage let a request pass
  winStart,     \* history: when the fixed window of the client began (-1: never)
  contactRows,  \* table Contact_Us
  careerRows,   \* table Career_Applications
  files,        \* number of objects in the career-applications bucket
  reqNo,        \* number of the request in flight (history)
  pc,           \* where the request in flight is
  req,          \* the request as it arrived: endpoint, address, body, attachment
  body,         \* req.body as the middleware has rewritten it so far
  file,         \* req.file (set by multer)
  verrors,      \* validationResult(req).array()
  stages,       \* history: the stages that ran for this request, in order
  insData,      \* insertData of the service call in progress
  calls,        \* history: backend calls of this request and their outcomes
  response,     \* the HTTP response of this request
  supabaseConfig, \* the SupabaseConfig singleton: isConnected, connectionAttempts
  probes,       \* the invocations of SupabaseConfig.testConnection
  listening,    \* Server.start has called app.listen
  appStore,     \* the MemoryStore of the server-wide limiter: [ip]
  pm,           \* the ProductManager of the products page
  careerSeq     \* the id sequence of Career_Applications when the process starts

\* state outside the submission routes
aside == <<supabaseConfig, probes, listening, appStore, pm, careerSeq>>

\* state of the submission routes
site == <<env, idType, now, store, admitLog, winStart, contactRows, careerRows,
          files, reqNo, pc, req, body, file, verrors, stages, insData, calls,
          response>>

vars == <<env, idType, now, store, admitLog, winStart, contactRows, careerRows, files,
          reqNo, pc, req, body, file, verrors, stages, insData, calls, response,
          supabaseConfig, probes, listening, appStore, pm, careerSeq>>

backend == <<contactRows, careerRows, files>>

limiter == <<store, admitLog, winStart>>

NoId == [t |-> "none", n |-> 0]

NoData ==
  [present |-> FALSE, id |-> NoId, submittedAt |-> 0, reference |-> <<>>,
   applicationNumber |-> <<>>, position |-> Undefined, status |-> ""]

\* the count member of a backend answer (null unless a count was asked for)
NullCount == [null |-> TRUE, n |-> 0]

NoResponse ==
  LET NoPagination == [page |-> 0, limit |-> 0, total |-> NullCount, totalPages |-> 0]
  IN
  [sent |-> 0, status |-> 0, success |-> FALSE, message |-> "",
   data |-> NoData, errors |-> <<>>, retryAfter |-> 0, error |-> <<>>,
   list |-> <<>>, pagination |-> NoPagination]

NoCalls ==
  [uploads |-> 0, inserts |-> 0, rpcs |-> 0, rows |-> 0,
   upload |-> "none", direct |-> "none", rpc |-> "none",
   range |-> <<>>, ascending |-> FALSE, counts |-> 0]

NoRequest ==
  [ep |-> "contact", method |-> "", path |-> "", ip |-> "", body |-> <<>>,
   file |-> NoFile, at |-> 0, rows |-> 0, files |-> 0]

NoEntry == [hits |-> 0, resetTime |-> 0]

\* ------------------------------------------------------------------------
\* SupabaseConfig (config/supabase.js): the singleton behind
\* testSupabaseConnection
\* ------------------------------------------------------------------------
ProbeIds == 1..MaxProbes

\* constructor: this.maxRetries
maxRetries == 3

\* constructor: isConnected and connectionAttempts
NewSupabaseConfig == [isConnected |-> FALSE, connectionAttempts |-> 0]

\* an invocation that has not begun (tries and threw are history: the
\* probe attempts of the invocation, and how many of them threw)
NoProbe ==
  [pc |-> "idle", who |-> "", tries |-> 0, threw |-> 0, result |-> FALSE,
   status |-> 0, report |-> "", api |-> "", error |-> FALSE]

\* ------------------------------------------------------------------------
\* ProductManager (products page script)
\* ------------------------------------------------------------------------
productData ==
  <<
    [id |-> 1, category |-> "antibiotics",
     name |-> <<"A","m","o","x","i","c","i","l","l","i","n"," ","5","0","0","m","g">>,
     description |-> <<"B","r","o","a","d","-","s","p","e","c","t","r","u","m"," ","a","n","t","i","b","i","o","t","i","c"," ","f","o","r"," ","t","r","e","a","t","i","n","g"," ","b","a","c","t","e","r","i","a","l"," ","i","n","f","e","c","t","i","o","n","s">>],
    [id |-> 2, category |-> "cardiovascular",
     name |-> <<"A","m","l","o","d","i","p","i","n","e"," ","5","m","g">>,
     description |-> <<"C","a","l","c","i","u","m"," ","c","h","a","n","n","e","l"," ","b","l","o","c","k","e","r"," ","f","o","r"," ","h","y","p","e","r","t","e","n","s","i","o","n"," ","t","r","e","a","t","m","e","n","t">>],
    [id |-> 3, category |-> "pain-management",
     name |-> <<"I","b","u","p","r","o","f","e","n"," ","4","0","0","m","g">>,
     description |-> <<"N","o","n","-","s","t","e","r","o","i","d","a","l"," ","a","n","t","i","-","i","n","f","l","a","m","m","a","t","o","r","y"," ","d","r","u","g"," ","f","o","r"," ","p","a","i","n"," ","r","e","l","i","e","f">>],
    [id |-> 4, category |-> "respiratory",
     name |-> <<"S","a","l","b","u","t","a","m","o","l"," ","I","n","h","a","l","e","r">>,
     description |-> <<"F","a","s","t","-","a","c","t","i","n","g"," ","b","r","o","n","c","h","o","d","i","l","a","t","o","r"," ","f","o","r"," ","a","s","t","h","m","a"," ","r","e","l","i","e","f">>],
    [id |-> 5, category |-> "diabetes",
     name |-> <<"M","e","t","f","o","r","m","i","n"," ","5","0","0","m","g">>,
     description |-> <<"F","i","r","s","t","-","l","i","n","e"," ","t","r","e","a","t","m","e","n","t"," ","f","o","r"," ","t","y","p","e"," ","2"," ","d","i","a","b","e","t","e","s">>],
    [id |-> 6, category |-> "vitamins",
     name |-> <<"V","i","t","a","m","i","n"," ","D","3"," ","1","0","0","0","I","U">>,
     description |-> <<"E","s","s","e","n","t","i","a","l"," ","v","i","t","a","m","i","n"," ","f","o","r"," ","b","o","n","e"," ","h","e","a","l","t","h"," ","a","n","d"," ","i","m","m","u","n","i","t","y">>],
    [id |-> 7, category |-> "antibiotics",
     name |-> <<"C","i","p","r","o","f","l","o","x","a","c","i","n"," ","5","0","0","m","g">>,
     description |-> <<"F","l","u","o","r","o","q","u","i","n","o","l","o","n","e"," ","a","n","t","i","b","i","o","t","i","c"," ","f","o","r"," ","v","a","r","i","o","u","s"," ","i","n","f","e","c","t","i","o","n","s">>],
    [id |-> 8, category |-> "cardiovascular",
     name |-> <<"A","t","e","n","o","l","o","l"," ","5","0","m","g">>,
     description |-> <<"B","e","t","a","-","b","l","o","c","k","e","r"," ","f","o","r"," ","h","e","a","r","t"," ","c","o","n","d","i","t","i","o","n","s"," ","a","n","d"," ","h","y","p","e","r","t","e","n","s","i","o","n">>],
    [id |-> 9, category |-> "pain-management",
     name |-> <<"P","a","r","a","c","e","t","a","m","o","l"," ","5","0","0","m","g">>,
     description |-> <<"A","n","a","l","g","e","s","i","c"," ","a","n","d"," ","a","n","t","i","p","y","r","e","t","i","c"," ","f","o","r"," ","p","a","i","n"," ","a","n","d"," ","f","e","v","e","r">>],
    [id |-> 10, category |-> "respiratory",
     name |-> <<"M","o","n","t","e","l","u","k","a","s","t"," ","1","0","m","g">>,
     description |-> <<"L","e","u","k","o","t","r","i","e","n","e"," ","r","e","c","e","p","t","o","r"," ","a","n","t","a","g","o","n","i","s","t"," ","f","o","r"," ","a","s","t","h","m","a">>]
  >>

productsPerPage == 6

\* String.prototype.includes on the lower-cased text
IncludesText(text, term) ==
  \E i \in 1..(Len(text) + 1) : MatchAt(text, i, term)

\* this.products.filter(...): the ids of the matching products, in order
RECURSIVE FilterProducts(_, _, _)
FilterProducts(k, category, search) ==
  LET \* the predicate of applyFilters
      MatchesFilters(product, category0, search0) ==
        /\ category0 = "all" \/ product.category = category0
        /\ \/ search0 = <<>>
           \/ IncludesText(product.name, search0)
           \/ IncludesText(product.description, search0)
  IN
  IF k > Len(productData) THEN <<>>
  ELSE (IF MatchesFilters(productData[k], category, search)
        THEN <<productData[k].id>> ELSE <<>>)
       \o FilterProducts(k + 1, category, search)

\* updateLoadMoreButton: is the button displayed afterwards
updateLoadMoreButton(m) ==
  ~(m.currentPage * productsPerPage >= Len(m.filteredProducts))

\* renderProducts: the grid (ids of the cards) and the button
renderProducts(m) ==
  LET \* Array.prototype.slice(0, end)
      Slice0(a, end) == SubSeq(a, 1, IF end < Len(a) THEN end ELSE Len(a))
  IN
  LET productsToShow == Slice0(m.filteredProducts, m.currentPage * productsPerPage)
  IN IF productsToShow = <<>>
     THEN [m EXCEPT !.grid = <<>>]
     ELSE [m EXCEPT !.grid = productsToShow,
                    !.loadMore = updateLoadMoreButton(m)]

applyFilters(m) ==
  renderProducts([m EXCEPT !.filteredProducts =
                    FilterProducts(1, m.currentCategory, m.currentSearch)])

\* constructor and init(): all products, first page rendered
NewProductManager ==
  renderProducts([filteredProducts |-> [k \in 1..Len(productData) |-> productData[k].id],
                  currentCategory |-> "all", currentSearch |-> <<>>,
                  currentPage |-> 1, grid |-> <<>>, loadMore |-> FALSE])

Init ==
  /\ env \in NodeEnvs
  /\ idType = "unknown"
  /\ now = 0
  /\ store = [ep \in Endpoints |-> [ip \in Clients |-> NoEntry]]
  /\ admitLog = [ep \in Endpoints |-> <<>>]
  /\ winStart = [ep \in Endpoints |-> -1]
  /\ contactRows = <<>>
  /\ careerRows = <<>>
  /\ files = 0
  /\ reqNo = 0
  /\ pc = "idle"
  /\ req = NoRequest
  /\ body = <<>>
  /\ file = NoFile
  /\ verrors = <<>>
  /\ stages = <<>>
  /\ insData = <<>>
  /\ calls = NoCalls
  /\ response = NoResponse
  /\ supabaseConfig = NewSupabaseConfig
  /\ probes = [i \in ProbeIds |-> NoProbe]
  /\ listening = FALSE
  /\ appStore = [ip \in Clients |-> NoEntry]
  /\ pm = NewProductManager
  /\ careerSeq = 0

\* config/index.js: server.environment
environment == IF env = "unset" THEN "development" ELSE env

\* ------------------------------------------------------------------------
\* Rate limiters (express-rate-limit, fixed window per client address)
\* ------------------------------------------------------------------------
windowMs(ep) == IF ep = "contact" THEN 15 * 60 * 1000 ELSE 60 * 60 * 1000

\* a ceiling that is one too high
maxPlusOne(ep) == 4

max(ep) == 3

\* the contact value copied to both limiters
retryAfterCopied(ep) == 900

\* the retryAfter member of the 429 body
retryAfter(ep) == IF ep = "contact" THEN 900 ELSE 60 * 60

\* skip: (req, res) => process.env.NODE_ENV === 'development'
skip(ep) == ep = "contact" /\ env = "development"

\* an increment that forgets to count inside a window
IncrementOnce(e, ep) ==
  IF now >= e.resetTime
  THEN [hits |-> 1, resetTime |-> now + windowMs(ep)]
  ELSE e

\* MemoryStore.increment: a new window starts with the first request that
\* arrives when the previous one has expired
Increment(e, ep) ==
  IF now >= e.resetTime
  THEN [hits |-> 1, resetTime |-> now + windowMs(ep)]
  ELSE [e EXCEPT !.hits = @ + 1]

\* entries of a log that are later than t
RECURSIVE After(_, _)
After(log, t) ==
  IF log = <<>> THEN <<>>
  ELSE IF Head(log) > t THEN log
  ELSE After(Tail(log), t)

\* ------------------------------------------------------------------------
\* The middleware stack of the two routes
\* ------------------------------------------------------------------------
\* a stack that validates before it sanitizes
PipelineValidateFirst(ep) ==
  IF ep = "contact"
  THEN <<"rateLimit", "validate", "sanitize", "handler">>
  ELSE <<"rateLimit", "upload", "validate", "sanitize", "handler">>

Pipeline(ep) ==
  IF ep = "contact"
  THEN <<"rateLimit", "sanitize", "validate", "handler">>
  ELSE <<"rateLimit", "upload", "sanitize", "validate", "handler">>

\* router.post('/', ...) of contactRoutes, router.post('/apply', ...) of
\* careerRoutes
SubmitPath(ep) == IF ep = "contact" THEN "/" ELSE "/apply"

\* the request matches the submission route of its router
IsSubmit(r) == r.method = "POST" /\ r.path = SubmitPath(r.ep)

\* next(): the stage after st
NextStage(ep, st) ==
  LET p == Pipeline(ep)
      i == CHOOSE k \in DOMAIN p : p[k] = st
  IN p[i + 1]

Respond(status, r) ==
  /\ response' = [r EXCEPT !.sent = response.sent + 1, !.status = status]
  /\ pc' = "done"

\* the clock step of a behaviour: a fraction of the window of its route
TickMs == windowMs(req.ep) \div TicksPerWindow

\* time passes between requests (the clock reads 0 at the first one)
Tick ==
  /\ pc = "done"
  /\ now + TickMs <= MaxTicks * TickMs
  /\ now' = now + TickMs
  /\ admitLog' = [ep \in Endpoints |->
                    After(admitLog[ep], now' - windowMs(ep))]
  /\ UNCHANGED <<aside, env, idType, store, winStart, backend, reqNo, pc, req, body,
                 file, verrors, stages, insData, calls, response>>

\* a request arrives at the server.  The two routes share no state (each
\* has its own limiter instance, table and bucket), so a behaviour follows
\* the requests of one route.
Receive(ep, ip, b, f) ==
  /\ pc \in {"idle", "done"}
  /\ reqNo = 0 \/ ep = req.ep
  /\ store[ep][ip].hits < MaxHits \/ now >= store[ep][ip].resetTime
  /\ Len(admitLog[ep]) < MaxHits
  /\ reqNo' = reqNo + 1
  /\ req' = [ep |-> ep, method |-> "POST", path |-> SubmitPath(ep), ip |-> ip,
             body |-> b, file |-> f, at |-> now,
             rows |-> Len(IF ep = "contact" THEN contactRows ELSE careerRows),
             files |-> files]
  /\ body' = b
  /\ file' = NoFile
  /\ verrors' = <<>>
  /\ stages' = <<>>
  /\ insData' = <<>>
  /\ calls' = NoCalls
  /\ response' = NoResponse
  /\ pc' = "received"
  /\ UNCHANGED <<aside, env, idType, now, limiter, backend>>

\* server.js: app.use('/api/contact', contactRoutes),
\*            app.use('/api/careers', careerRoutes)
Dispatch ==
  /\ pc = "received"
  /\ IsSubmit(req)
  /\ pc' = Pipeline(req.ep)[1]
  /\ UNCHANGED <<aside, env, idType, now, limiter, backend, reqNo, req, body, file,
                 verrors, stages, insData, calls, response>>

\* contactRateLimit / careerApplicationRateLimit
RateLimit ==
  /\ pc = "rateLimit"
  /\ stages' = Append(stages, "rateLimit")
  /\ winStart' = [winStart EXCEPT ![req.ep] =
                    IF @ = -1 \/ now >= @ + windowMs(req.ep) THEN now ELSE @]
  /\ LET ep == req.ep
         e == Increment(store[ep][req.ip], ep)
     IN IF skip(ep)
        THEN /\ store' = store
             /\ admitLog' = [admitLog EXCEPT ![ep] = Append(@, now)]
             /\ pc' = NextStage(ep, "rateLimit")
             /\ response' = response
        ELSE /\ store' = [store EXCEPT ![ep][req.ip] = e]
             /\ IF e.hits > max(ep)
                THEN /\ Respond(429, [response EXCEPT
                                        !.message = "Too many requests",
                                        !.retryAfter = retryAfter(ep)])
                     /\ admitLog' = admitLog
                ELSE /\ admitLog' = [admitLog EXCEPT ![ep] = Append(@, now)]
                     /\ pc' = NextStage(ep, "rateLimit")
                     /\ response' = response
  /\ UNCHANGED <<aside, env, idType, now, backend, reqNo, req, body, file, verrors,
                 insData, calls>>

\* ------------------------------------------------------------------------
\* multer, sanitizer and validation stages
\* ------------------------------------------------------------------------
\* a size test that also turns away a file of exactly the limit
TooLargeAtLimit(size) == size >= 5 * 1024 * 1024

\* limits.fileSize of multer and maxSize of the controller: 5 * 1024 * 1024
TooLarge(size) == size > 5 * 1024 * 1024

AllowedTypes ==
  {"application/pdf", "application/msword",
   "application/vnd.openxmlformats-officedocument.wordprocessingml.document"}

\* upload.single('resume') and the router's multer error handler
Upload ==
  /\ pc = "upload"
  /\ stages' = Append(stages, "upload")
  /\ IF req.file.present /\ req.file.mimetype \notin AllowedTypes
     THEN /\ Respond(400, [response EXCEPT
                             !.message = "Invalid file type",
                             !.errors = <<SErr("Please upload a PDF, DOC, or DOCX file")>>])
          /\ file' = file
     ELSE IF req.file.present /\ TooLarge(req.file.size)
     THEN /\ Respond(400, [response EXCEPT
                             !.message = "File too large",
                             !.errors = <<SErr("Resume file must be less than 5MB")>>])
          /\ file' = file
     ELSE /\ file' = req.file
          /\ pc' = NextStage(req.ep, "upload")
          /\ response' = response
  /\ UNCHANGED <<aside, env, idType, now, limiter, backend, reqNo, req, body, verrors,
                 insData, calls>>

\* sanitizeInput / sanitizeCareerInput
Sanitize ==
  /\ pc = "sanitize"
  /\ stages' = Append(stages, "sanitize")
  /\ body' = IF req.ep = "contact" THEN sanitizeInput(body)
             ELSE sanitizeCareerInput(body)
  /\ pc' = NextStage(req.ep, "sanitize")
  /\ UNCHANGED <<aside, env, idType, now, limiter, backend, reqNo, req, file, verrors,
                 insData, calls, response>>

\* validateContactForm / validateCareerApplication: the chains only record
\* their errors, the controller reads them
Validate ==
  /\ pc = "validate"
  /\ stages' = Append(stages, "validate")
  /\ LET r == IF req.ep = "contact" THEN validateContactForm(body)
              ELSE validateCareerApplication(body)
     IN /\ body' = r.body
        /\ verrors' = r.errors
  /\ pc' = NextStage(req.ep, "validate")
  /\ UNCHANGED <<aside, env, idType, now, limiter, backend, reqNo, req, file,
                 insData, calls, response>>

\* ------------------------------------------------------------------------
\* Error messages (sequences of words; String.includes is a word test here)
\* ------------------------------------------------------------------------
Includes(msg, w) == \E i \in DOMAIN msg : msg[i] = w

DbFailed(m) == <<"Database", "insertion", "failed:">> \o m

\* a message without the word the controller looks for
UploadFailedStorage(m) == <<"Storage", "request", "failed:">> \o m

\* `File upload failed: ${error.message}`
UploadFailed(m) == <<"File", "upload", "failed:">> \o m

RlsMessage == <<"new", "row", "violates", "row-level", "security", "policy">>

OtherMessage == <<"value", "too", "long">>

NetworkMessage == <<"fetch", "failed">>

SliceTypeError == <<"contactRecord.id.slice", "is", "not", "a", "function">>

\* the body of both controllers' catch blocks
ErrorBody(msg) ==
  [NoResponse EXCEPT
     !.message = "We apologize, but there was an issue",
     !.error = IF environment = "development" THEN msg ELSE <<>>]

\* a catch block that blames the client for a database failure
ContactStatusClient(msg) == IF Includes(msg, "Database") THEN 400 ELSE 500

\* ContactController.createContact, catch
ContactStatus(msg) == IF Includes(msg, "Database") THEN 503 ELSE 500

\* a catch block that answers 200 for a backend failure
CareerStatusOk(msg) ==
  IF Includes(msg, "Database") \/ Includes(msg, "upload") THEN 200 ELSE 500

\* CareerController.submitApplication, catch
CareerStatus(msg) ==
  IF Includes(msg, "Database") \/ Includes(msg, "upload") THEN 503 ELSE 500

ValidationFailed(errs) ==
  [NoResponse EXCEPT !.message = "Validation failed", !.errors = errs]

\* ------------------------------------------------------------------------
\* Identifiers
\* ------------------------------------------------------------------------
RECURSIVE IntToDec(_)
IntToDec(n) ==
  LET d == <<"0","1","2","3","4","5","6","7","8","9">>[(n % 10) + 1]
  IN IF n < 10 THEN <<d>> ELSE IntToDec(n \div 10) \o <<d>>

\* String.prototype.slice(-k)
SliceLast(s, k) == IF Len(s) <= k THEN s ELSE SubSeq(s, Len(s) - k + 1, Len(s))

\* String.prototype.padStart(k, c)
RECURSIVE PadStart(_, _, _)
PadStart(s, k, c) == IF Len(s) >= k THEN s ELSE PadStart(<<c>> \o s, k, c)

\* `AF-${contactRecord.id.slice(-8).toUpperCase()}`
Reference(id) ==
  LET \* the text of the n-th UUID the backend hands out
      UuidText(n) == <<"3","b","2","4","1","1","0","1","-","e","2","b","b","-","4","2","5","5","-","8","c","a","f","-","4","1","3","6","c","5","6","6">> \o IntToDec(1000 + n)
  IN
  LET \* String.prototype.toUpperCase
      ToUpper(s) ==
        LET UpperChar(c) ==
              IF c \in Range(LowerCase)
              THEN UpperCase[CHOOSE i \in DOMAIN LowerCase : LowerCase[i] = c]
              ELSE c
        IN
                    [i \in DOMAIN s |-> UpperChar(s[i])]
  IN
                 <<"A", "F", "-">> \o ToUpper(SliceLast(UuidText(id.n), 8))

\* a number cut to its last six digits
ApplicationNumberCut(id) ==
  <<"A", "C", "-">> \o SliceLast(PadStart(IntToDec(id.n), 6, "0"), 6)

\* `AC-${data.id.toString().padStart(6, '0')}`
ApplicationNumber(id) == <<"A", "C", "-">> \o PadStart(IntToDec(id.n), 6, "0")

\* ------------------------------------------------------------------------
\* POST /api/contact: ContactController.createContact and
\* ContactService.createContact
\* ------------------------------------------------------------------------
\* insertData of ContactService.createContact
ContactInsertData(b) ==
  [Full_Name |-> Trim(b.fullName.s),
   Email_id |-> Trim(ToLower(b.email.s)),
   Contact |-> Trim(b.contact.s),
   Enter_Message |-> Trim(b.message.s)]

\* the row the backend creates for an insert into Contact_Us
ContactRow(d, n, t) ==
  [id |-> [t |-> t, n |-> n],
   Full_Name |-> d.Full_Name,
   Email_id |-> d.Email_id,
   Contact |-> d.Contact,
   Enter_Message |-> d.Enter_Message,
   created_at |-> now]

\* the synchronous part of the controller, up to the awaited insert
ContactHandler ==
  /\ pc = "handler"
  /\ req.ep = "contact"
  /\ stages' = Append(stages, "handler")
  /\ IF verrors # <<>>
     THEN /\ Respond(400, ValidationFailed(verrors))
          /\ insData' = insData
     ELSE IF validateContactData(body) # <<>>
     THEN /\ Respond(400, ValidationFailed(validateContactData(body)))
          /\ insData' = insData
     ELSE /\ insData' = ContactInsertData(body)
          /\ pc' = "createContact"
          /\ response' = response
  /\ UNCHANGED <<aside, env, idType, now, limiter, backend, reqNo, req, body, file,
                 verrors, calls>>

\* supabase.from('Contact_Us').insert([insertData]).select().single()
\* answers, and the controller finishes the request
ContactInsert(o, t) ==
  LET \* contactRecord.id.slice exists: only a string has slice
      HasSlice(id) == id.t = "uuid"
  IN
  /\ pc = "createContact"
  /\ calls' = [calls EXCEPT !.inserts = @ + 1, !.direct = o]
  /\ idType' = IF o = "ok" THEN t ELSE idType
  /\ CASE o = "ok" ->
            LET row == ContactRow(insData, Len(contactRows) + 1, t)
            IN /\ Len(contactRows) < MaxRows
               /\ idType \in {"unknown", t}
               /\ contactRows' = Append(contactRows, row)
               /\ IF HasSlice(row.id)
                  THEN Respond(201, [NoResponse EXCEPT
                         !.success = TRUE,
                         !.message = "Thank you for contacting Africure Pharma!",
                         !.data = [NoData EXCEPT
                                     !.present = TRUE,
                                     !.id = row.id,
                                     !.submittedAt = row.created_at,
                                     !.reference = Reference(row.id)]])
                  ELSE Respond(ContactStatus(SliceTypeError),
                               ErrorBody(SliceTypeError))
       [] o = "error" ->
            /\ contactRows' = contactRows
            /\ Respond(ContactStatus(DbFailed(OtherMessage)),
                       ErrorBody(DbFailed(OtherMessage)))
       [] o = "throws" ->
            /\ contactRows' = contactRows
            /\ Respond(ContactStatus(NetworkMessage), ErrorBody(NetworkMessage))
  /\ UNCHANGED <<aside, env, now, limiter, careerRows, files, reqNo, req,
                 body, file, verrors, stages, insData>>

\* ------------------------------------------------------------------------
\* POST /api/careers/apply: CareerController.submitApplication and
\* CareerService.createApplication
\* ------------------------------------------------------------------------
\* the synchronous part of the controller, up to the awaited service call
CareerHandler ==
  /\ pc = "handler"
  /\ req.ep = "career"
  /\ stages' = Append(stages, "handler")
  /\ IF verrors # <<>>
     THEN Respond(400, ValidationFailed(verrors))
     ELSE IF validateApplicationData(body) # <<>>
     THEN Respond(400, ValidationFailed(validateApplicationData(body)))
     ELSE IF ~file.present
     THEN Respond(400, [NoResponse EXCEPT
            !.message = "Resume file is required",
            !.errors = <<SErr("Please upload your resume (PDF, DOC, or DOCX format)")>>])
     ELSE IF file.mimetype \notin AllowedTypes
     THEN Respond(400, [NoResponse EXCEPT
            !.message = "Invalid file type",
            !.errors = <<SErr("Please upload a PDF, DOC, or DOCX file")>>])
     ELSE IF TooLarge(file.size)
     THEN Respond(400, [NoResponse EXCEPT
            !.message = "File too large",
            !.errors = <<SErr("Resume file must be less than 5MB")>>])
     ELSE /\ pc' = "uploadResume"
          /\ response' = response
  /\ UNCHANGED <<aside, env, idType, now, limiter, backend, reqNo, req, body, file,
                 verrors, insData, calls>>

\* insertData of CareerService.createApplication
CareerInsertData(b, url, fileName) ==
  [full_name |-> Trim(b.fullName.s),
   email |-> Trim(ToLower(b.email.s)),
   phone |-> Trim(b.phone.s),
   location |-> Trim(b.location.s),
   position |-> b.position,
   experience |-> b.experience,
   qualification |-> b.qualification,
   cover_letter |-> IF Truthy(b.coverLetter) THEN Str(Trim(b.coverLetter.s))
                    ELSE Undefined,
   resume_url |-> url,
   resume_file_name |-> fileName,
   consent_given |-> (b.consent = Str(<<"o", "n">>)),
   application_status |-> "pending",
   application_date |-> now]

\* the row the backend creates for an insert into Career_Applications,
\* directly or through insert_career_application(application_data)
CareerRow(d, n) ==
  [id |-> [t |-> "integer", n |-> n],
   full_name |-> d.full_name,
   email |-> d.email,
   phone |-> d.phone,
   location |-> d.location,
   position |-> d.position,
   experience |-> d.experience,
   qualification |-> d.qualification,
   cover_letter |-> d.cover_letter,
   resume_url |-> d.resume_url,
   resume_file_name |-> d.resume_file_name,
   consent_given |-> d.consent_given,
   application_status |-> d.application_status,
   admin_notes |-> Undefined,
   application_date |-> d.application_date,
   updated_at |-> now]

\* CareerService.uploadResume answers
UploadResume(o) ==
  /\ pc = "uploadResume"
  /\ calls' = [calls EXCEPT !.uploads = @ + 1, !.upload = o]
  /\ CASE o = "ok" ->
            /\ files < MaxFiles
            /\ files' = files + 1
            /\ insData' = CareerInsertData(body,
                            Str(<<"r", "e", "s", "u", "m", "e", "_">> \o IntToDec(files + 1)),
                            Str(file.originalname))
            /\ pc' = "insert"
            /\ response' = response
       [] o = "error" ->
            /\ files' = files
            /\ insData' = insData
            /\ Respond(CareerStatus(UploadFailed(OtherMessage)),
                       ErrorBody(UploadFailed(OtherMessage)))
       [] o = "throws" ->
            /\ files' = files
            /\ insData' = insData
            /\ Respond(CareerStatus(NetworkMessage), ErrorBody(NetworkMessage))
  /\ UNCHANGED <<aside, env, idType, now, limiter, contactRows, careerRows, reqNo,
                 req, body, file, verrors, stages>>

\* the end of createApplication and of the controller for a result `data`
CareerFinish(isArray, row) ==
  LET \* data.id of the result: an array (the result of rpc on a function that
      \* RETURNS TABLE) has no id member
      DataId(isArray0, row0) == IF isArray0 THEN NoId ELSE row0.id
  IN
  LET UndefinedTypeError == <<"Cannot", "read", "properties", "of", "undefined">>
  IN
  IF DataId(isArray, row) = NoId
  THEN Respond(CareerStatus(UndefinedTypeError), ErrorBody(UndefinedTypeError))
  ELSE Respond(201, [NoResponse EXCEPT
         !.success = TRUE,
         !.message = "Thank you for your application!",
         !.data = [NoData EXCEPT
                     !.present = TRUE,
                     !.id = row.id,
                     !.applicationNumber = ApplicationNumber(row.id),
                     !.submittedAt = row.application_date,
                     !.position = row.position,
                     !.status = row.application_status]])

\* supabase.from('Career_Applications').insert([insertData]).select().single()
\* answers
CareerInsert(o) ==
  LET \* the try/catch around the direct insert: only a rejected promise (an
      \* exception) reaches the catch block and the stored procedure
      FallsBack(o0) == o0 = "throws"
  IN
  /\ pc = "insert"
  /\ calls' = [calls EXCEPT !.inserts = @ + 1, !.direct = o]
  /\ IF FallsBack(o)
     THEN /\ careerRows' = careerRows
          /\ pc' = "rpc"
          /\ response' = response
     ELSE CASE o = "ok" ->
                 LET row == CareerRow(insData, careerSeq + Len(careerRows) + 1)
                 IN /\ Len(careerRows) < MaxRows
                    /\ careerRows' = Append(careerRows, row)
                    /\ CareerFinish(FALSE, row)
            [] o = "rls" ->
                 /\ careerRows' = careerRows
                 /\ Respond(CareerStatus(DbFailed(RlsMessage)),
                            ErrorBody(DbFailed(RlsMessage)))
            [] OTHER ->
                 /\ careerRows' = careerRows
                 /\ Respond(CareerStatus(DbFailed(OtherMessage)),
                            ErrorBody(DbFailed(OtherMessage)))
  /\ UNCHANGED <<aside, env, idType, now, limiter, contactRows, files, reqNo, req,
                 body, file, verrors, stages, insData>>

\* supabase.rpc('insert_career_application', {application_data}) answers
CareerRpc(o) ==
  /\ pc = "rpc"
  /\ calls' = [calls EXCEPT !.rpcs = @ + 1, !.rpc = o]
  /\ CASE o = "ok" ->
            LET row == CareerRow(insData, careerSeq + Len(careerRows) + 1)
            IN /\ Len(careerRows) < MaxRows
               /\ careerRows' = Append(careerRows, row)
               /\ CareerFinish(TRUE, row)
       [] o = "error" ->
            /\ careerRows' = careerRows
            /\ Respond(CareerStatus(DbFailed(RlsMessage)),
                       ErrorBody(DbFailed(RlsMessage)))
       [] o = "throws" ->
            /\ careerRows' = careerRows
            /\ Respond(CareerStatus(NetworkMessage), ErrorBody(NetworkMessage))
  /\ UNCHANGED <<aside, env, idType, now, limiter, contactRows, files, reqNo, req,
                 body, file, verrors, stages, insData>>

\* ------------------------------------------------------------------------
\* Specification
\* ------------------------------------------------------------------------
Next ==
  \/ Tick
  \/ \E ep \in Endpoints : \E ip \in Clients :
       \E b \in BodiesOf(ep) : \E f \in FilesOf(ep) : Receive(ep, ip, b, f)
  \/ Dispatch
  \/ RateLimit
  \/ Upload
  \/ Sanitize
  \/ Validate
  \/ ContactHandler
  \/ \E o \in {"ok", "error", "throws"} : \E t \in IdTypes : ContactInsert(o, t)
  \/ CareerHandler
  \/ \E o \in {"ok", "error", "throws"} : UploadResume(o)
  \/ \E o \in {"ok", "rls", "error", "throws"} : CareerInsert(o)
  \/ \E o \in {"ok", "error", "throws"} : CareerRpc(o)

Spec == Init /\ [][Next]_vars

\* the submissions of one rate-limit window, drawn from the larger sets of
\* forms and attachments
NextForms ==
  \/ \E ip \in Clients :
       \* further contact forms: a name with a hyphen and an apostrophe, a
       \* gmail.com address with dots and a tag
       \/ \E b \in ContactBodies \cup
                    {[ValidContactBody EXCEPT !.fullName =
                        Str(<<"A","n","n","e","-","M","a","r","i","e"," ","O","'","N","e","i","l">>)],
                     [ValidContactBody EXCEPT !.email =
                        Str(<<"J",".","D","o","e","+","n","e","w","s","@",
                              "g","m","a","i","l",".","c","o","m">>)]} :
            Receive("contact", ip, b, NoFile)
       \* further career forms: a consent field that says no
       \* further attachments: at the size limit and one byte above it
       \/ \E b \in CareerBodies \cup
                    {[ValidCareerBody EXCEPT !.consent = Str(<<"f","a","l","s","e">>)]} :
            \E f \in Files \cup
                    {PdfFile(5 * MiB + 1),
                     [PdfFile(5 * MiB) EXCEPT
                        !.mimetype = "application/vnd.openxmlformats-officedocument.wordprocessingml.document",
                        !.originalname = <<"c","v",".","d","o","c","x">>]} :
              Receive("career", ip, b, f)
  \/ Dispatch
  \/ RateLimit
  \/ Upload
  \/ Sanitize
  \/ Validate
  \/ ContactHandler
  \/ \E o \in {"ok", "error", "throws"} : \E t \in IdTypes : ContactInsert(o, t)
  \/ CareerHandler
  \/ \E o \in {"ok", "error", "throws"} : UploadResume(o)
  \/ \E o \in {"ok", "rls", "error", "throws"} : CareerInsert(o)
  \/ \E o \in {"ok", "error", "throws"} : CareerRpc(o)

SpecForms == Init /\ [][NextForms]_vars

\* ------------------------------------------------------------------------
\* Submissions that carry markup: the inputs of the sanitizers
\* ------------------------------------------------------------------------
MarkupTexts ==
  {<<"<","s","c","r","i","p","t",">","a","l","e","r","t","(","1",")","<","/","s","c","r","i","p","t",">","H","e","l","l","o"," ","t","h","e","r","e">>,
   <<"J","a","v","a","S","c","r","i","p","t",":","a","l","e","r","t","(","1",")"," ","h","e","l","l","o">>,
   <<"j","a","v","a","j","a","v","a","s","c","r","i","p","t",":","s","c","r","i","p","t",":","a","l","e","r","t","(","1",")">>,
   <<"<","s","c","r","<","s","c","r","i","p","t",">","<","/","s","c","r","i","p","t",">","i","p","t",">","a","l","e","r","t","(","1",")","<","/","s","c","r","i","p","t",">">>}

NextMarkup ==
  \/ \E ip \in Clients :
       \/ \E t \in MarkupTexts :
            Receive("contact", ip, [ValidContactBody EXCEPT !.message = Str(t)], NoFile)
       \/ \E t \in MarkupTexts :
            Receive("career", ip, [ValidCareerBody EXCEPT !.coverLetter = Str(t)],
                    PdfFile(2 * MiB))
  \/ Dispatch
  \/ RateLimit
  \/ Upload
  \/ Sanitize
  \/ Validate
  \/ ContactHandler
  \/ \E o \in {"ok", "error", "throws"} : \E t \in IdTypes : ContactInsert(o, t)
  \/ CareerHandler
  \/ \E o \in {"ok", "error", "throws"} : UploadResume(o)
  \/ \E o \in {"ok", "rls", "error", "throws"} : CareerInsert(o)
  \/ \E o \in {"ok", "error", "throws"} : CareerRpc(o)

\* the submissions of one window with markup in a text field
SpecMarkup == Init /\ [][NextMarkup]_vars

\* ------------------------------------------------------------------------
\* The other routes of the server: the GET routes the routers register,
\* and the 404 handler that answers everything no router matches (the
\* admin routes of both routers are commented out)
\* ------------------------------------------------------------------------
\* routers whose admin GET routes are not commented out
RegisteredGetAdmin(ep) ==
  IF ep = "contact" THEN {"/health", "/test", "/admin/all", "/admin/stats"}
  ELSE {"/positions", "/admin/applications", "/admin/stats"}

\* router.get of contactRoutes and careerRoutes
RegisteredGet(ep) ==
  IF ep = "contact" THEN {"/health", "/test"} ELSE {"/positions"}

IsGet(r) == r.method = "GET" /\ r.path \in RegisteredGet(r.ep)

\* the admin routes of the two routers (in comments) and of the README
AdminRoutes(ep) ==
  IF ep = "contact"
  THEN {<<"GET", "/admin/all">>, <<"GET", "/admin/stats">>,
        <<"GET", "/admin/1">>, <<"DELETE", "/admin/1">>}
  ELSE {<<"GET", "/admin/applications">>, <<"GET", "/admin/applications/1">>,
        <<"PUT", "/admin/applications/1/status">>, <<"GET", "/admin/stats">>}

\* requests below the mount of a router that are not its submission
OtherRoutes(ep) ==
  AdminRoutes(ep)
    \cup {<<"GET", p>> : p \in RegisteredGet(ep)}
    \cup {<<"POST", "/admin/1/status">>}

\* req.body of a request that carries none of the form fields
EmptyBody(ep) ==
  [k \in DOMAIN (IF ep = "contact" THEN ValidContactBody ELSE ValidCareerBody)
     |-> Undefined]

\* a request for another route arrives
ReceiveOther(ep, ip, m, p) ==
  /\ pc \in {"idle", "done"}
  /\ reqNo = 0 \/ ep = req.ep
  /\ reqNo < MaxOther
  /\ reqNo' = reqNo + 1
  /\ req' = [ep |-> ep, method |-> m, path |-> p, ip |-> ip,
             body |-> EmptyBody(ep), file |-> NoFile, at |-> now,
             rows |-> Len(IF ep = "contact" THEN contactRows ELSE careerRows),
             files |-> files]
  /\ body' = EmptyBody(ep)
  /\ file' = NoFile
  /\ verrors' = <<>>
  /\ stages' = <<>>
  /\ insData' = <<>>
  /\ calls' = NoCalls
  /\ response' = NoResponse
  /\ pc' = "received"
  /\ UNCHANGED <<aside, env, idType, now, limiter, backend>>

\* ContactController.healthCheck and testConnection,
\* CareerController.getAvailablePositions (up: the database answers)
GetRoute(up) ==
  /\ pc = "received"
  /\ IsGet(req)
  /\ IF req.path = "/health" /\ ~up
     THEN Respond(503, [NoResponse EXCEPT
            !.success = TRUE, !.message = "Service is degraded"])
     ELSE Respond(200, [NoResponse EXCEPT
            !.success = TRUE,
            !.message = IF req.path = "/health" THEN "Service is healthy"
                        ELSE IF req.path = "/test" /\ up
                        THEN "Database connection successful"
                        ELSE IF req.path = "/test"
                        THEN "Database connection failed"
                        ELSE "Available positions retrieved successfully"])
  /\ UNCHANGED <<aside, env, idType, now, limiter, backend, reqNo, req, body, file,
                 verrors, stages, insData, calls>>

\* server.js: app.use('*', ...) answers what no router matched
NotFound ==
  /\ pc = "received"
  /\ ~IsSubmit(req)
  /\ ~IsGet(req)
  /\ Respond(404, [NoResponse EXCEPT !.message = "Route not found"])
  /\ UNCHANGED <<aside, env, idType, now, limiter, backend, reqNo, req, body, file,
                 verrors, stages, insData, calls>>

NextServer ==
  \/ \E ep \in Endpoints : \E ip \in Clients :
       \E b \in BodiesOf(ep) : \E f \in FilesOf(ep) : Receive(ep, ip, b, f)
  \/ Dispatch
  \/ RateLimit
  \/ Upload
  \/ Sanitize
  \/ Validate
  \/ ContactHandler
  \/ \E o \in {"ok", "error", "throws"} : \E t \in IdTypes : ContactInsert(o, t)
  \/ CareerHandler
  \/ \E o \in {"ok", "error", "throws"} : UploadResume(o)
  \/ \E o \in {"ok", "rls", "error", "throws"} : CareerInsert(o)
  \/ \E o \in {"ok", "error", "throws"} : CareerRpc(o)
  \/ \E ep \in Endpoints : \E ip \in Clients : \E r \in OtherRoutes(ep) :
       ReceiveOther(ep, ip, r[1], r[2])
  \/ \E up \in BOOLEAN : GetRoute(up)
  \/ NotFound

\* the server with all its routes, the requests of one window
SpecServer == Init /\ [][NextServer]_vars

\* ------------------------------------------------------------------------
\* The admin operations of CareerController, called directly (no route
\* of the server reaches them).  Each call runs the controller method and
\* the service method to the end; o is what the backend answers.
\* ------------------------------------------------------------------------
\* a list that also lets 'archived' pass
validStatusesArchived ==
  {"pending", "reviewing", "shortlisted", "interviewed", "hired", "rejected",
   "archived"}

\* validStatuses of CareerController.updateApplicationStatus
validStatuses ==
  {"pending", "reviewing", "shortlisted", "interviewed", "hired", "rejected"}

\* req.params.id of the calls: the rows that can exist and one that cannot
IdInputs == 1..(MaxRows + 1)

\* the record of a direct call of a controller method
AdminCall(op, id, status, notes) ==
  [NoRequest EXCEPT
     !.ep = "career", !.method = "call", !.path = op,
     !.body = [id |-> id, status |-> status, notes |-> notes],
     !.at = now, !.rows = Len(careerRows), !.files = files]

\* what every admin call leaves alone, and how it ends
AdminDone(op, id, status, notes, o) ==
  /\ pc \in {"idle", "done"}
  /\ req' = AdminCall(op, id, status, notes)
  /\ body' = <<>>
  /\ file' = NoFile
  /\ verrors' = <<>>
  /\ stages' = <<>>
  /\ insData' = <<>>
  /\ calls' = [NoCalls EXCEPT !.direct = o]
  /\ pc' = "done"
  /\ UNCHANGED <<aside, env, idType, now, limiter, contactRows, files, reqNo>>

\* the body of the admin methods' catch blocks
AdminError(m, msg) ==
  [NoResponse EXCEPT
     !.sent = 1, !.message = m,
     !.error = IF environment = "development" THEN msg ELSE <<>>]

AdminOk(m, id) ==
  [NoResponse EXCEPT
     !.sent = 1, !.status = 200, !.success = TRUE, !.message = m,
     !.data = [NoData EXCEPT !.present = TRUE, !.id = id]]

\* the rows that pass the filters of the query, as positions in the table
RECURSIVE Filtered(_, _)
Filtered(k, status) ==
  IF k > Len(careerRows) THEN <<>>
  ELSE (IF status = "" \/ careerRows[k].application_status = status
        THEN <<k>> ELSE <<>>) \o Filtered(k + 1, status)

\* .order('application_date', {ascending}): insertion of position k into
\* the ordered positions ks
RECURSIVE InsertByDate(_, _, _)
InsertByDate(k, ks, ascending) ==
  IF ks = <<>> THEN <<k>>
  ELSE LET before == IF ascending
                     THEN careerRows[k].application_date
                            <= careerRows[Head(ks)].application_date
                     ELSE careerRows[k].application_date
                            >= careerRows[Head(ks)].application_date
       IN IF before THEN <<k>> \o ks
          ELSE <<Head(ks)>> \o InsertByDate(k, Tail(ks), ascending)

RECURSIVE Ordered(_, _)
Ordered(ks, ascending) ==
  IF ks = <<>> THEN <<>>
  ELSE InsertByDate(Head(ks), Ordered(Tail(ks), ascending), ascending)

\* .range(from, to): the rows from..to (zero-based, inclusive) of ks
RangeOf(ks, from, to) ==
  IF from >= Len(ks) THEN <<>>
  ELSE SubSeq(ks, from + 1, IF to + 1 < Len(ks) THEN to + 1 ELSE Len(ks))

\* CareerService.getAllApplications: the value returned when the query
\* succeeds
ListResult(q) ==
  LET \* Math.ceil(count / limit), null counting as 0
      CeilDiv(count0, limit) ==
        IF count0.null THEN 0 ELSE (count0.n + limit - 1) \div limit
  IN
  LET \* .select('*'): no count is asked for and the answer's count is null
      SelectCount(n) == NullCount
  IN
  LET offset == (q.page - 1) * q.limit
      ks == Ordered(Filtered(1, q.status), q.sortOrder = "asc")
      count == SelectCount(Len(ks))
  IN [applications |-> [i \in DOMAIN RangeOf(ks, offset, offset + q.limit - 1) |->
                          careerRows[RangeOf(ks, offset, offset + q.limit - 1)[i]].id.n],
      range |-> <<offset, offset + q.limit - 1>>,
      pagination |-> [page |-> q.page, limit |-> q.limit, total |-> count,
                      totalPages |-> CeilDiv(count, q.limit)]]

\* CareerController.getAllApplications / CareerService.getAllApplications
GetAllApplications(q, o) ==
  /\ pc \in {"idle", "done"}
  /\ req' = [AdminCall("getAllApplications", 0, q.status, Undefined)
               EXCEPT !.body = [id |-> 0, status |-> q.status, notes |-> Undefined,
                                page |-> q.page, limit |-> q.limit,
                                sortOrder |-> q.sortOrder]]
  /\ body' = <<>>
  /\ file' = NoFile
  /\ verrors' = <<>>
  /\ stages' = <<>>
  /\ insData' = <<>>
  /\ calls' = [NoCalls EXCEPT !.direct = o,
                              !.range = ListResult(q).range,
                              !.ascending = (q.sortOrder = "asc")]
  /\ pc' = "done"
  /\ UNCHANGED <<aside, env, idType, now, limiter, contactRows, files, reqNo>>
  /\ careerRows' = careerRows
  /\ response' =
       IF o = "ok"
       THEN [AdminOk("Applications retrieved successfully", NoId)
             EXCEPT !.list = ListResult(q).applications,
                    !.pagination = ListResult(q).pagination]
       ELSE [AdminError("Failed to retrieve applications",
               IF o = "error"
               THEN <<"Failed", "to", "fetch", "applications:">> \o OtherMessage
               ELSE NetworkMessage)
             EXCEPT !.status = 500]

\* CareerController.getApplicationById / CareerService.getApplicationById
GetApplicationById(id, o) ==
  /\ AdminDone("getApplicationById", id, "", Undefined, o)
  /\ careerRows' = careerRows
  /\ response' =
       IF o = "ok" /\ id \in DOMAIN careerRows
       THEN AdminOk("Application retrieved successfully", careerRows[id].id)
       ELSE IF o = "ok"
       THEN [AdminError("Application not found", <<"Application", "not", "found">>)
             EXCEPT !.status = 404]
       ELSE [AdminError("Failed to retrieve application",
               IF o = "error"
               THEN <<"Failed", "to", "fetch", "application:">> \o OtherMessage
               ELSE NetworkMessage)
             EXCEPT !.status = 500]

\* an update that always writes the notes it was called with
AdminNotesAlways(old, notes) == notes

\* updateData: admin_notes is part of the update only `if (notes)`
AdminNotes(old, notes) == IF Truthy(notes) THEN notes ELSE old

\* CareerController.updateApplicationStatus /
\* CareerService.updateApplicationStatus
UpdateApplicationStatus(id, status, notes, o) ==
  LET \* the answer of .single() when no row matches: error code PGRST116
      NoRowMessage == <<"JSON", "object", "requested,", "multiple", "(or", "no)", "rows", "returned">>
  IN
  /\ AdminDone("updateApplicationStatus", id, status, notes,
               IF status \in validStatuses THEN o ELSE "none")
  /\ IF status \notin validStatuses
     THEN /\ careerRows' = careerRows
          /\ response' = [NoResponse EXCEPT
               !.sent = 1, !.status = 400, !.message = "Invalid status",
               !.errors = <<SErr("Status must be one of: pending, reviewing, shortlisted, interviewed, hired, rejected")>>]
     ELSE IF o = "ok" /\ id \in DOMAIN careerRows
     THEN /\ careerRows' = [careerRows EXCEPT ![id] =
               [@ EXCEPT !.application_status = status,
                         !.updated_at = now,
                         !.admin_notes = AdminNotes(@, notes)]]
          /\ response' = AdminOk("Application status updated successfully",
                                  careerRows[id].id)
     ELSE /\ careerRows' = careerRows
          /\ response' =
               [AdminError("Failed to update application status",
                  IF o = "ok"
                  THEN <<"Failed", "to", "update", "application", "status:">> \o NoRowMessage
                  ELSE IF o = "error"
                  THEN <<"Failed", "to", "update", "application", "status:">> \o OtherMessage
                  ELSE NetworkMessage)
                EXCEPT !.status = 500]

\* CareerController.getApplicationStats / CareerService.getApplicationStats
GetApplicationStats(o) ==
  /\ AdminDone("getApplicationStats", 0, "", Undefined, o)
  /\ careerRows' = careerRows
  /\ response' =
       IF o = "ok"
       THEN AdminOk("Application statistics retrieved successfully", NoId)
       ELSE [AdminError("Failed to retrieve application statistics",
               IF o = "error"
               THEN <<"Failed", "to", "get", "total", "count:">> \o OtherMessage
               ELSE NetworkMessage)
             EXCEPT !.status = 500]

\* the career submissions the admin calls are interleaved with
AdminBodies == {ValidCareerBody}

AdminFiles == {PdfFile(2 * MiB)}

NextAdmin ==
  \/ \E ip \in Clients : \E b \in AdminBodies : \E f \in AdminFiles :
       Receive("career", ip, b, f)
  \/ Dispatch
  \/ RateLimit
  \/ Upload
  \/ Sanitize
  \/ Validate
  \/ CareerHandler
  \/ \E o \in {"ok", "error", "throws"} : UploadResume(o)
  \/ \E o \in {"ok", "rls", "error", "throws"} : CareerInsert(o)
  \/ \E o \in {"ok", "error", "throws"} : CareerRpc(o)
  \* req.query of a list call without parameters: the defaults of the
  \* controller's destructuring
  \/ \E o \in {"ok", "error", "throws"} :
       GetAllApplications([page |-> 1, limit |-> 10, sortOrder |-> "desc", status |-> ""], o)
  \/ \E id \in IdInputs : \E o \in {"ok", "error", "throws"} :
       GetApplicationById(id, o)
  \* the status values and notes the calls are made with ("": no status)
  \/ \E id \in IdInputs : \E st \in {"reviewing", "rejected", "archived", ""} :
       \E n \in {Undefined, Str(<<"c","a","l","l">>)} :
       \E o \in {"ok", "error", "throws"} : UpdateApplicationStatus(id, st, n, o)
  \/ \E o \in {"ok", "error", "throws"} : GetApplicationStats(o)

\* the career controller with its admin methods called directly, between
\* the submissions of one rate-limit window
SpecAdmin == Init /\ [][NextAdmin]_vars

\* ------------------------------------------------------------------------
\* The admin operations on a table that already holds applications
\* (rows created through the public flow at earlier times)
\* ------------------------------------------------------------------------

InitOffice ==
  LET \* the k-th stored application
      SeedRow(k0) ==
        [CareerRow(CareerInsertData(validateCareerApplication(
                                      sanitizeCareerInput(ValidCareerBody)).body,
                                    Str(<<"u","r","l">>), Str(<<"c","v",".","p","d","f">>)), k0)
           EXCEPT !.application_date = k0, !.updated_at = k0]
  IN
  /\ env \in {"development", "production"}
  /\ idType = "unknown"
  /\ now = MaxSeed + 1
  /\ store = [ep \in Endpoints |-> [ip \in Clients |-> NoEntry]]
  /\ admitLog = [ep \in Endpoints |-> <<>>]
  /\ winStart = [ep \in Endpoints |-> -1]
  /\ contactRows = <<>>
  /\ \E n \in 0..MaxSeed : careerRows = [k \in 1..n |-> SeedRow(k)]
  /\ files = Len(careerRows)
  /\ reqNo = 0
  /\ pc = "idle"
  /\ req = NoRequest
  /\ body = <<>>
  /\ file = NoFile
  /\ verrors = <<>>
  /\ stages = <<>>
  /\ insData = <<>>
  /\ calls = NoCalls
  /\ response = NoResponse
  /\ supabaseConfig = NewSupabaseConfig
  /\ probes = [i \in ProbeIds |-> NoProbe]
  /\ listening = FALSE
  /\ appStore = [ip \in Clients |-> NoEntry]
  /\ pm = NewProductManager
  /\ careerSeq = 0

NextOffice ==
  \* req.query of the list calls: page >= 1, limit in 1..100
  \/ \E q \in [page : 1..2, limit : {1, 2, 100}, sortOrder : {"asc", "desc"},
               status : {"", "reviewing"}] :
       \E o \in {"ok", "error"} : GetAllApplications(q, o)
  \* req.body.notes of the update calls: none, empty, a note
  \/ \E id \in 1..(MaxSeed + 1) : \E st \in {"reviewing", "archived"} :
       \E n \in {Undefined, Str(<<>>), Str(<<"c","a","l","l">>)} :
       \E o \in {"ok", "error"} : UpdateApplicationStatus(id, st, n, o)

SpecOffice == InitOffice /\ [][NextOffice]_vars

\* ------------------------------------------------------------------------
\* Career submissions on a table whose id sequence has advanced
\* ------------------------------------------------------------------------

InitNumber ==
  /\ env \in NodeEnvs
  /\ idType = "unknown"
  /\ now = 0
  /\ store = [ep \in Endpoints |-> [ip \in Clients |-> NoEntry]]
  /\ admitLog = [ep \in Endpoints |-> <<>>]
  /\ winStart = [ep \in Endpoints |-> -1]
  /\ contactRows = <<>>
  /\ careerRows = <<>>
  /\ files = 0
  /\ reqNo = 0
  /\ pc = "idle"
  /\ req = NoRequest
  /\ body = <<>>
  /\ file = NoFile
  /\ verrors = <<>>
  /\ stages = <<>>
  /\ insData = <<>>
  /\ calls = NoCalls
  /\ response = NoResponse
  /\ supabaseConfig = NewSupabaseConfig
  /\ probes = [i \in ProbeIds |-> NoProbe]
  /\ listening = FALSE
  /\ appStore = [ip \in Clients |-> NoEntry]
  /\ pm = NewProductManager
  \* values of the sequence behind Career_Applications.id at the start
  /\ careerSeq \in {0, 41, 999998, 999999, 1234566}

NextNumber ==
  \/ \E ip \in Clients : \E b \in AdminBodies : \E f \in AdminFiles :
       Receive("career", ip, b, f)
  \/ Dispatch
  \/ RateLimit
  \/ Upload
  \/ Sanitize
  \/ Validate
  \/ CareerHandler
  \/ \E o \in {"ok", "error", "throws"} : UploadResume(o)
  \/ \E o \in {"ok", "rls", "error", "throws"} : CareerInsert(o)
  \/ \E o \in {"ok", "error", "throws"} : CareerRpc(o)

SpecNumber == InitNumber /\ [][NextNumber]_vars

\* ------------------------------------------------------------------------
\* The reachability probe: Server.start awaits one invocation before it
\* listens; afterwards GET /api/contact/health and GET /api/contact/test
\* each run one.  Invocations of different requests interleave at their
\* awaits (the query, the 2 s timer of a retry).
\* ------------------------------------------------------------------------
ProbeCallers == {"health", "test"}

\* Server.start: testSupabaseConnection() before app.listen
StartProbe ==
  /\ ~listening
  /\ probes[1].pc = "idle"
  /\ probes' = [probes EXCEPT ![1] = [NoProbe EXCEPT !.pc = "query", !.who = "start"]]
  /\ UNCHANGED <<site, supabaseConfig, listening, appStore, pm, careerSeq>>

\* Server.start: app.listen once the probe has returned
Listen ==
  /\ ~listening
  /\ probes[1].pc = "returned"
  /\ listening' = TRUE
  /\ probes' = [probes EXCEPT ![1].pc = "answered"]
  /\ UNCHANGED <<site, supabaseConfig, appStore, pm, careerSeq>>

\* a request for one of the two probe routes reaches its controller method
RequestProbe(i, who) ==
  /\ listening
  /\ probes[i].pc = "idle"
  /\ \A j \in 1..(i - 1) : probes[j].pc # "idle"
  /\ probes' = [probes EXCEPT ![i] = [NoProbe EXCEPT !.pc = "query", !.who = who]]
  /\ UNCHANGED <<site, supabaseConfig, listening, appStore, pm, careerSeq>>

\* testConnection, the catch block
Caught(i) ==
  /\ supabaseConfig' = [isConnected |-> FALSE,
                        connectionAttempts |-> supabaseConfig.connectionAttempts + 1]
  /\ probes' = [probes EXCEPT
       ![i].tries = @ + 1,
       ![i].threw = @ + 1,
       ![i].pc = IF supabaseConfig.connectionAttempts + 1 < maxRetries
                 THEN "waiting" ELSE "returned",
       ![i].result = FALSE]

\* testConnection from the answer of the count query to the return or to
\* the timer (o: the query answers, answers with an error, or throws)
Query(i, o) ==
  /\ probes[i].pc = "query"
  /\ CASE o = "ok" ->
            /\ supabaseConfig' = [isConnected |-> TRUE, connectionAttempts |-> 0]
            /\ probes' = [probes EXCEPT ![i].tries = @ + 1,
                                        ![i].pc = "returned",
                                        ![i].result = TRUE]
       [] o = "error" ->
            /\ supabaseConfig' = [supabaseConfig EXCEPT !.isConnected = FALSE]
            /\ probes' = [probes EXCEPT ![i].tries = @ + 1,
                                        ![i].pc = "returned",
                                        ![i].result = FALSE]
       [] o = "throws" -> Caught(i)
  /\ UNCHANGED <<site, listening, appStore, pm, careerSeq>>

\* the timer of the retry fires: return this.testConnection()
Retry(i) ==
  /\ probes[i].pc = "waiting"
  /\ probes' = [probes EXCEPT ![i].pc = "query"]
  /\ UNCHANGED <<site, supabaseConfig, listening, appStore, pm, careerSeq>>

\* a health check that answers 200 whatever the probe returned
healthStatusOk(dbConnected) == 200

\* ContactController.healthCheck: statusCode
healthStatus(dbConnected) == IF dbConnected THEN 200 ELSE 503

\* ContactController.healthCheck and testConnection after the await
\* (testSupabaseConnection never rejects, so their catch blocks stay unused)
AnswerProbe(i) ==
  /\ probes[i].pc = "returned"
  /\ probes[i].who \in ProbeCallers
  /\ probes' = [probes EXCEPT ![i] =
       IF probes[i].who = "health"
       THEN [@ EXCEPT !.pc = "answered",
                      !.status = healthStatus(probes[i].result),
                      !.report = IF probes[i].result THEN "healthy" ELSE "degraded",
                      !.api = "up"]
       ELSE [@ EXCEPT !.pc = "answered",
                      !.status = 200,
                      !.report = IF probes[i].result THEN "connected"
                                 ELSE "not connected"]]
  /\ UNCHANGED <<site, supabaseConfig, listening, appStore, pm, careerSeq>>

NextProbe ==
  \/ StartProbe
  \/ Listen
  \/ \E i \in ProbeIds \ {1} : \E who \in ProbeCallers : RequestProbe(i, who)
  \/ \E i \in ProbeIds : \E o \in {"ok", "error", "throws"} : Query(i, o)
  \/ \E i \in ProbeIds : Retry(i)
  \/ \E i \in ProbeIds : AnswerProbe(i)

\* the process from its start, serving the probe routes
SpecProbe == Init /\ [][NextProbe]_vars

\* ------------------------------------------------------------------------
\* The top-level liveness route GET /health behind the server-wide limiter
\* (setupMiddleware registers the limiter before setupRoutes registers the
\* route).  RATE_LIMIT_WINDOW_MS and RATE_LIMIT_MAX_REQUESTS are not set:
\* the defaults of config/index.js apply.
\* ------------------------------------------------------------------------
\* config.security.rateLimit.windowMs
appWindowMs == 15 * 60 * 1000

\* time passes between requests for /health
TickTop ==
  /\ pc \in {"idle", "done"}
  /\ now < MaxTicks * (appWindowMs \div TicksPerWindow)
  /\ now' = now + appWindowMs \div TicksPerWindow
  /\ UNCHANGED <<aside, env, idType, limiter, backend, reqNo, pc, req, body, file,
                 verrors, stages, insData, calls, response>>

\* GET /health arrives
ReceiveTop(ip) ==
  /\ pc \in {"idle", "done"}
  /\ reqNo < MaxTop
  /\ reqNo' = reqNo + 1
  /\ req' = [NoRequest EXCEPT !.ep = "app", !.method = "GET", !.path = "/health",
                              !.ip = ip, !.at = now]
  /\ response' = NoResponse
  /\ pc' = "limiter"
  /\ UNCHANGED <<aside, env, idType, now, limiter, backend, body, file, verrors,
                 stages, insData, calls>>

\* app.use(limiter): MemoryStore.increment, then 429 above the ceiling
AppLimiter ==
  LET \* config.security.rateLimit.maxRequests
      maxRequests == 100
  IN
  /\ pc = "limiter"
  /\ LET e == IF now >= appStore[req.ip].resetTime
              THEN [hits |-> 1, resetTime |-> now + appWindowMs]
              ELSE [appStore[req.ip] EXCEPT !.hits = @ + 1]
     IN /\ appStore' = [appStore EXCEPT ![req.ip] = e]
        /\ IF e.hits > maxRequests
           THEN Respond(429, [NoResponse EXCEPT
                  !.message = "Too many requests from this IP, please try again later.",
                  !.retryAfter = (appWindowMs + 999) \div 1000])
           ELSE /\ pc' = "route"
                /\ UNCHANGED response
  /\ UNCHANGED <<supabaseConfig, probes, listening, pm, careerSeq, env, idType, now, limiter,
                 backend, reqNo, req, body, file, verrors, stages, insData, calls>>

\* app.get('/health', ...)
TopHealth ==
  /\ pc = "route"
  /\ req.method = "GET" /\ req.path = "/health"
  /\ Respond(200, [NoResponse EXCEPT !.message = "Africure Pharma API is running"])
  /\ UNCHANGED <<aside, env, idType, now, limiter, backend, reqNo, req, body, file,
                 verrors, stages, insData, calls>>

NextTop ==
  \/ TickTop
  \/ \E ip \in Clients : ReceiveTop(ip)
  \/ AppLimiter
  \/ TopHealth

\* the server answering its liveness route
SpecTop == Init /\ [][NextTop]_vars

\* ------------------------------------------------------------------------
\* The products page: the events the ProductManager is bound to
\* ------------------------------------------------------------------------
\* a filter button or a category card is clicked
filterByCategory(category) ==
  /\ pm' = applyFilters([pm EXCEPT !.currentCategory = category, !.currentPage = 1])
  /\ UNCHANGED <<site, supabaseConfig, probes, listening, appStore, careerSeq>>

\* the search box changes (after the debounce) or the search button is clicked
handleSearch(searchTerm) ==
  /\ pm' = applyFilters([pm EXCEPT !.currentSearch = ToLower(searchTerm),
                                   !.currentPage = 1])
  /\ UNCHANGED <<site, supabaseConfig, probes, listening, appStore, careerSeq>>

\* the load-more button is clicked (it can be while it is displayed)
loadMoreProducts ==
  /\ pm.loadMore
  /\ pm.currentPage < MaxPage
  /\ pm' = renderProducts([pm EXCEPT !.currentPage = @ + 1])
  /\ UNCHANGED <<site, supabaseConfig, probes, listening, appStore, careerSeq>>

NextProducts ==
  \* data-category of the filter buttons and category cards
  \/ \E category \in {"all", "antibiotics", "cardiovascular", "pain-management",
                      "respiratory", "diabetes", "vitamins"} :
       filterByCategory(category)
  \* what the visitor types into the search box
  \/ \E searchTerm \in {<<>>, <<"m","g">>, <<"A","S","T","H","M","A">>,
                        <<"a","n","t","i">>, <<"z","z","z">>} :
       handleSearch(searchTerm)
  \/ loadMoreProducts

SpecProducts == Init /\ [][NextProducts]_vars

\* ------------------------------------------------------------------------
\* Vocabulary of the properties
\* ------------------------------------------------------------------------
\* the table of the route of the request in flight
RowsOf(ep) == IF ep = "contact" THEN contactRows ELSE careerRows

\* an attachment that passes the intake rules
AcceptableFile(f) ==
  /\ f.present
  /\ f.mimetype \in AllowedTypes
  /\ f.size <= 5 * MiB

\* the input of the request satisfies every validation rule of its route
ValidInput(r) ==
  IF r.ep = "contact"
  THEN LET v == validateContactForm(sanitizeInput(r.body))
       IN v.errors = <<>> /\ validateContactData(v.body) = <<>>
  ELSE LET v == validateCareerApplication(sanitizeCareerInput(r.body))
       IN /\ v.errors = <<>>
          /\ validateApplicationData(v.body) = <<>>
          /\ AcceptableFile(r.file)

\* the submitted email, lower-cased and trimmed
NormalEmail(r) == Trim(ToLower(r.body.email.s))

\* the row with the given id is in the table with the submitted values
Retrievable(r, id) ==
  \E i \in DOMAIN RowsOf(r.ep) :
    LET row == RowsOf(r.ep)[i]
    IN /\ row.id = id
       /\ IF r.ep = "contact"
          THEN /\ row.Full_Name = Trim(r.body.fullName.s)
               /\ row.Email_id = NormalEmail(r)
               /\ row.Contact = Trim(r.body.contact.s)
               /\ row.Enter_Message = Trim(r.body.message.s)
          ELSE /\ row.full_name = Trim(r.body.fullName.s)
               /\ row.email = NormalEmail(r)
               /\ row.phone = Trim(r.body.phone.s)
               /\ row.location = Trim(r.body.location.s)
               /\ row.position = r.body.position
               /\ row.experience = r.body.experience
               /\ row.qualification = r.body.qualification

\* every backend call the request issued succeeded at the first attempt
BackendCallsSucceeded ==
  /\ calls.direct = "ok"
  /\ req.ep = "career" => calls.upload = "ok"

Is2xx(st) == st >= 200 /\ st <= 299

Is4xx(st) == st >= 400 /\ st <= 499

\* no row was added to the table of the route since the request arrived
NoRowAdded == Len(RowsOf(req.ep)) = req.rows

\* ------------------------------------------------------------------------
\* C1: a valid submission whose backend calls succeed is answered 201 with
\* the id of the inserted row, which is retrievable with the normalized
\* values, whatever the id type; and no request that is answered with a
\* failure status has inserted a row.
\* ------------------------------------------------------------------------
C1_ValidSubmissionCreated ==
  pc = "done" =>
    /\ (ValidInput(req) /\ BackendCallsSucceeded) =>
         /\ response.status = 201
         /\ response.data.present
         /\ Retrievable(req, response.data.id)
    /\ ~Is2xx(response.status) => NoRowAdded

\* ------------------------------------------------------------------------
\* C2: a submission moves only along Received -> Validating ->
\* (Rejected | Persisting) -> (Persisted | Failed); a rejected submission
\* has issued no upload and no insert; the three final states are never
\* left; a finished submission has exactly one response.
\* ------------------------------------------------------------------------
PhaseOf(p, st) ==
  CASE p = "idle" -> "None"
    [] p = "received" -> "Received"
    [] p \in {"rateLimit", "upload", "sanitize", "validate", "handler"} -> "Validating"
    [] p \in {"createContact", "uploadResume", "insert", "rpc"} -> "Persisting"
    [] OTHER -> IF st = 201 THEN "Persisted"
                ELSE IF Is4xx(st) THEN "Rejected"
                ELSE "Failed"

Phase == PhaseOf(pc, response.status)

PhaseEdges ==
  {<<"Received", "Validating">>, <<"Validating", "Validating">>,
   <<"Validating", "Rejected">>, <<"Validating", "Persisting">>,
   <<"Persisting", "Persisting">>, <<"Persisting", "Persisted">>,
   <<"Persisting", "Failed">>}

FinalPhases == {"Rejected", "Persisted", "Failed"}

C2_PhaseStep ==
  LET next == PhaseOf(pc', response'.status)
  IN IF reqNo' = reqNo
     THEN \/ <<Phase, next>> \in PhaseEdges
          \/ next = Phase /\ response' = response
     ELSE Phase \in FinalPhases \cup {"None"} /\ next = "Received"

C2_PhaseInv ==
  /\ Phase = "Rejected" =>
       /\ calls.uploads = 0 /\ calls.inserts = 0 /\ calls.rpcs = 0
       /\ NoRowAdded /\ files = req.files
  /\ Phase \in FinalPhases => response.sent = 1
  /\ Phase \notin FinalPhases => response.sent = 0

WindowOpen(ep) == winStart[ep] # -1 /\ now < winStart[ep] + windowMs(ep)

\* requests that passed the limiter stage since the window began
AdmittedInWindow(ep) ==
  Cardinality({i \in DOMAIN admitLog[ep] : admitLog[ep][i] >= winStart[ep]})

\* requests that passed the limiter stage in the last windowMs
AdmittedInLastWindow(ep) ==
  Cardinality({i \in DOMAIN admitLog[ep] : admitLog[ep][i] > now - windowMs(ep)})

\* the limiter of the route is in force: the contact limiter is skipped
\* when NODE_ENV is development
InForce(ep) == ~(ep = "contact" /\ env = "development")

\* the limiter stage of the request in flight runs in this step
LimiterRuns == pc = "rateLimit" /\ pc' # "rateLimit"

NothingPersisted ==
  /\ calls.uploads = 0 /\ calls.inserts = 0 /\ calls.rpcs = 0
  /\ NoRowAdded /\ files = req.files

\* ------------------------------------------------------------------------
\* C3: once 3 requests of a client were admitted in the current window,
\* every further request in that window is answered 429 without reaching
\* validation or persistence, valid or not, and the first request after
\* the window has elapsed is admitted.
\* ------------------------------------------------------------------------
C3_LimiterStep(ep) ==
  /\ (WindowOpen(ep) /\ AdmittedInWindow(ep) >= 3) =>
       /\ pc' = "done"
       /\ response'.status = 429
  /\ ~WindowOpen(ep) => pc' # "done"

C3_Rejected ==
  (pc = "done" /\ response.status = 429) =>
    /\ stages = <<"rateLimit">>
    /\ NothingPersisted

C4_CeilingAnyInterval ==
  \A ep \in Endpoints : AdmittedInLastWindow(ep) <= 3

\* the claim as amended: the intervals that are windows of the limiter,
\* for a limiter that is in force
C4_CeilingOwnWindow ==
  \A ep \in Endpoints : InForce(ep) => AdmittedInWindow(ep) <= 3

C4_Witness ==
  \E ep \in Endpoints :
    /\ InForce(ep)
    /\ AdmittedInWindow(ep) = 3
    /\ AdmittedInLastWindow(ep) > 3

\* ------------------------------------------------------------------------
\* C5: a 429 response carries a retry-after equal to the time that remains
\* of the client's window.
\* ------------------------------------------------------------------------
RemainingSeconds(ep) == (winStart[ep] + windowMs(ep) - now + 999) \div 1000

\* the claim as stated
C5_RetryAfterRemaining ==
  (pc = "done" /\ response.status = 429) =>
    response.retryAfter = RemainingSeconds(req.ep)

\* the claim as amended: the full length of the window, in seconds
C5_RetryAfterFullWindow ==
  (pc = "done" /\ response.status = 429) =>
    /\ response.retryAfter * 1000 = windowMs(req.ep)
    /\ response.retryAfter = IF req.ep = "contact" THEN 15 * 60 ELSE 60 * 60

C5_Witness ==
  /\ pc = "done"
  /\ response.status = 429
  /\ req.ep = "career"
  /\ RemainingSeconds(req.ep) < response.retryAfter

\* ------------------------------------------------------------------------
\* C6: the stages of a request run in the order rate-limit, sanitize,
\* validate, handler; the validation rules see the sanitized body, the
\* handler a body that went through both; no stage runs after the one
\* that answered the request.
\* ------------------------------------------------------------------------
StageOrder == <<"rateLimit", "sanitize", "validate", "handler">>

IsPrefix(a, b) == Len(a) <= Len(b) /\ a = SubSeq(b, 1, Len(a))

NotUpload(st) == st # "upload"

Sanitized(r) ==
  IF r.ep = "contact" THEN sanitizeInput(r.body) ELSE sanitizeCareerInput(r.body)

Validated(r) ==
  IF r.ep = "contact" THEN validateContactForm(Sanitized(r))
  ELSE validateCareerApplication(Sanitized(r))

C6_Order ==
  /\ IsPrefix(SelectSeq(stages, NotUpload), StageOrder)
  /\ "validate" \in Range(stages) =>
       /\ verrors = Validated(req).errors
       /\ body = Validated(req).body
  /\ (pc = "done" /\ "handler" \notin Range(stages)) =>
       /\ Is4xx(response.status)
       /\ NothingPersisted
       /\ verrors = <<>>

C6_StageOrder ==
  /\ []C6_Order
  /\ [][(pc = "done" /\ reqNo' = reqNo) => stages' = stages]_vars

C6_Witness ==
  /\ pc = "done"
  /\ req.ep = "contact"
  /\ response.status = 201
  /\ stages = StageOrder
  /\ Sanitized(req) # req.body
  /\ validateContactForm(req.body).errors # <<>>

\* ------------------------------------------------------------------------
\* C7: when the resume upload succeeded and the insert failed on every
\* path that was tried, the answer is a failure envelope with a non-2xx
\* status and no Career_Applications row exists for the submission.
\* ------------------------------------------------------------------------
InsertFailedEverywhere ==
  \/ calls.direct \in {"rls", "error"}
  \/ calls.direct = "throws" /\ calls.rpc \in {"error", "throws"}

C7_NoPartialPersistence ==
  (pc = "done" /\ req.ep = "career" /\ calls.upload = "ok"
     /\ InsertFailedEverywhere) =>
    /\ response.success = FALSE
    /\ ~Is2xx(response.status)
    /\ NoRowAdded

C7_Witness ==
  /\ pc = "done"
  /\ req.ep = "career"
  /\ calls.upload = "ok"
  /\ files = req.files + 1
  /\ calls.direct = "throws"
  /\ calls.rpc = "error"
  /\ response.status = 503

\* ------------------------------------------------------------------------
\* C8: a direct insert that the backend rejects with a row-level-security
\* denial, reported in the error member of the result, is followed by a
\* call of insert_career_application, and the submission succeeds if that
\* call succeeds.
\* ------------------------------------------------------------------------
C8_FallbackOnPolicyDenial ==
  (pc = "done" /\ calls.direct = "rls") =>
    /\ calls.rpcs = 1
    /\ calls.rpc = "ok" => response.status = 201

\* ------------------------------------------------------------------------
\* C9: a createApplication that succeeds through the stored procedure
\* returns the same shape as one that succeeds through the direct insert
\* (id, applicationNumber, submittedAt, position and status taken from the
\* inserted row), so the controller answers 201 in both cases.
\* ------------------------------------------------------------------------
C9_FallbackSameShape ==
  (pc = "done" /\ req.ep = "career"
     /\ (calls.direct = "ok" \/ calls.rpc = "ok")) =>
    LET row == careerRows[Len(careerRows)]
    IN /\ response.status = 201
       /\ response.data.present
       /\ response.data.id = row.id
       /\ response.data.applicationNumber = ApplicationNumber(row.id)
       /\ response.data.submittedAt = row.application_date
       /\ response.data.position = row.position
       /\ response.data.status = row.application_status

\* ------------------------------------------------------------------------
\* C10: a career request without the consent field, once it has passed the
\* limiter and the file intake, is answered 400 with an error entry for
\* the consent field; no upload and no insert is performed for it, with or
\* without an attached resume.
\* ------------------------------------------------------------------------
ConsentMissing == reqNo > 0 /\ req.ep = "career" /\ ~req.body.consent.def

Affirmative(v) == v \in {Str(<<"o","n">>), Str(<<"t","r","u","e">>)}

C11_ConsentAlwaysGiven ==
  /\ \A i \in DOMAIN careerRows : careerRows[i].consent_given = TRUE
  /\ (reqNo > 0 /\ req.ep = "career" /\ ~Affirmative(req.body.consent)) =>
       /\ NoRowAdded
       /\ calls.inserts = 0 /\ calls.rpcs = 0
       /\ pc = "done" => ~Is2xx(response.status)

\* ------------------------------------------------------------------------
\* C13: no request to the server invokes an admin operation: a request
\* for an admin route (list, get-by-id, update-status, stats, delete) of
\* either router is answered 404 and touches neither table nor bucket, so
\* every row keeps application_status = 'pending' and the values it was
\* inserted with.
\* ------------------------------------------------------------------------
IsAdminRequest(r) == <<r.method, r.path>> \in AdminRoutes(r.ep)

C13_AdminAnswered404 ==
  (pc = "done" /\ IsAdminRequest(req)) =>
    /\ response.status = 404
    /\ response.success = FALSE
    /\ NothingPersisted

C13_RowsPending ==
  \A i \in DOMAIN careerRows :
    /\ careerRows[i].application_status = "pending"
    /\ careerRows[i].admin_notes = Undefined

C13_RowsKept ==
  /\ \A i \in DOMAIN careerRows :
       i \in DOMAIN careerRows' /\ careerRows'[i] = careerRows[i]
  /\ \A i \in DOMAIN contactRows :
       i \in DOMAIN contactRows' /\ contactRows'[i] = contactRows[i]

StatusEnum ==
  {"pending", "reviewing", "shortlisted", "interviewed", "hired", "rejected"}

IsUpdateCall == pc = "done" /\ req.method = "call" /\ req.path = "updateApplicationStatus"

C12_Enumerated ==
  \A i \in DOMAIN careerRows : careerRows[i].application_status \in StatusEnum

C12_OtherValueRejected ==
  (IsUpdateCall /\ req.body.status \notin StatusEnum) =>
    /\ response.status = 400
    /\ response.success = FALSE

C12_RowsStep ==
  (IsUpdateCall' /\ req'.body.status \notin StatusEnum) => careerRows' = careerRows

C12_StatusEnumerated ==
  /\ []C12_Enumerated
  /\ []C12_OtherValueRejected
  /\ [][C12_RowsStep]_vars

C12_Witness ==
  /\ IsUpdateCall
  /\ req.body.status = "archived"
  /\ req.body.id = 1
  /\ Len(careerRows) = 1
  /\ careerRows[1].application_status = "rejected"
  /\ response.status = 400

\* ------------------------------------------------------------------------
\* C14: every controller operation answers a validation failure with 400,
\* a row that does not exist (a status update on an unknown id included)
\* with 404, a failure of the remote database or storage with 503, and
\* any other failure with 500.
\* ------------------------------------------------------------------------
\* the call names a row that is not in the table, and the backend answered
RowMissing ==
  /\ req.method = "call"
  /\ req.path \in {"getApplicationById", "updateApplicationStatus"}
  /\ req.body.id \notin 1..req.rows
  /\ calls.direct = "ok"

\* a call of the backend (database or storage) failed
BackendFailed ==
  \/ calls.upload \in {"error", "throws"}
  \/ calls.direct \in {"rls", "error"}
  \/ calls.direct = "throws" /\ (req.method = "call" \/ calls.rpc \in {"error", "throws"})

\* the input of the operation breaks one of its validation rules
InputInvalid ==
  IF req.method = "call"
  THEN req.path = "updateApplicationStatus" /\ req.body.status \notin StatusEnum
  ELSE ~ValidInput(req)

C14_StatusByFailureKind ==
  (pc = "done" /\ req.method \in {"call", "POST"} /\ response.status # 429) =>
    /\ InputInvalid => response.status = 400
    /\ (~InputInvalid /\ RowMissing) => response.status = 404
    /\ (~InputInvalid /\ BackendFailed) => response.status = 503
    /\ response.status \in {200, 201, 400, 404, 500, 503}

\* ------------------------------------------------------------------------
\* C15: a 400 validation-failure response of a submission has, for every
\* violated rule, an error entry that names the field of the rule (an
\* object with field, message and value); none of its entries lacks the
\* field, and it does not carry success = true.
\* ------------------------------------------------------------------------
\* the controller answered 'Validation failed' (the 400 answers for the
\* attachment carry bare strings as well)
IsValidationFailure ==
  /\ pc = "done"
  /\ req.method = "POST"
  /\ response.status = 400
  /\ response.message = "Validation failed"

C15_ErrorsNameFields ==
  IsValidationFailure =>
    /\ response.success = FALSE
    /\ response.errors # <<>>
    /\ \A i \in DOMAIN response.errors :
         /\ response.errors[i].kind = "object"
         /\ response.errors[i].field \in DOMAIN req.body

\* ------------------------------------------------------------------------
\* C16: a contact submission whose fields lie inside the documented ranges
\* (full name 2 to 255 letters, spaces, hyphens, dots and apostrophes; a
\* valid email; contact an optional + and 10 to 16 digits; message 10 to
\* 2000 characters) passes both validation layers and reaches the insert.
\* ------------------------------------------------------------------------
NameChar(c) == IsLetter(c) \/ c \in {" ", "-", ".", "'"}

InDocumentedRanges(b) ==
  /\ \A k \in DOMAIN b : b[k].def
  /\ LET name == Trim(b.fullName.s)
         tel == Trim(b.contact.s)
         digits == IF tel # <<>> /\ Head(tel) = "+" THEN Tail(tel) ELSE tel
         msg == Trim(b.message.s)
     IN /\ Len(name) >= 2 /\ Len(name) <= 255
        /\ \A i \in DOMAIN name : NameChar(name[i])
        /\ IsEmail(Trim(b.email.s))
        /\ Len(digits) >= 10 /\ Len(digits) <= 16
        /\ \A i \in DOMAIN digits : IsDigit(digits[i])
        /\ Len(msg) >= 10 /\ Len(msg) <= 2000

C16_DocumentedRangesAccepted ==
  (pc = "done" /\ req.ep = "contact" /\ req.method = "POST"
     /\ response.status # 429 /\ InDocumentedRanges(req.body)) =>
    /\ response.status # 400
    /\ calls.inserts = 1

\* ------------------------------------------------------------------------
\* C17: the email stored for an accepted contact or career submission is
\* the submitted email in lower case with the surrounding white space
\* removed, and nothing else is changed.
\* ------------------------------------------------------------------------
StoredEmail ==
  LET row == RowsOf(req.ep)[Len(RowsOf(req.ep))]
  IN IF req.ep = "contact" THEN row.Email_id ELSE row.email

C17_EmailLowerCasedTrimmed ==
  (pc = "done" /\ req.method = "POST" /\ response.status = 201) =>
    StoredEmail = Trim(ToLower(req.body.email.s))

\* ------------------------------------------------------------------------
\* C18: the resume of a career submission is accepted if and only if its
\* declared content type is PDF, DOC or DOCX and its size is at most
\* 5 * 1024 * 1024 bytes; in every other case the request is answered 400
\* and neither a storage upload nor a database insert is performed.
\* ------------------------------------------------------------------------
FileAnswers == {"Resume file is required", "Invalid file type", "File too large"}

IsCareerAnswer ==
  /\ pc = "done"
  /\ req.ep = "career"
  /\ req.method = "POST"
  /\ response.status # 429

UploadHasFailed == req.ep = "career" /\ calls.upload \in {"error", "throws"}

FieldsValid(r) ==
  LET v == validateCareerApplication(sanitizeCareerInput(r.body))
  IN v.errors = <<>> /\ validateApplicationData(v.body) = <<>>

C20_ResumeOptional ==
  (IsCareerAnswer /\ ~req.file.present /\ FieldsValid(req)) =>
    /\ response.status # 400
    /\ calls.uploads = 0
    /\ calls.inserts = 1
    /\ calls.direct = "ok" =>
         /\ Len(careerRows) = req.rows + 1
         /\ careerRows[Len(careerRows)].resume_url = Undefined
         /\ careerRows[Len(careerRows)].resume_file_name = Undefined

\* ------------------------------------------------------------------------
\* C21  In production no response carries the underlying error message;
\*      in every other environment (development, test) the failure
\*      responses carry it.
\* ------------------------------------------------------------------------
IsFailureAnswer == pc = "done" /\ response.status \in {500, 503}

C21_ErrorDetailByEnvironment ==
  /\ (pc = "done" /\ environment = "production") => response.error = <<>>
  /\ (IsFailureAnswer /\ environment # "production") => response.error # <<>>

\* ------------------------------------------------------------------------
\* C22  GET /api/contact/health answers 200 with status 'healthy' exactly
\*      when the backend probe succeeded and 503 otherwise; every health
\*      report carries status 'healthy' or 'degraded' and services.api 'up'.
\* ------------------------------------------------------------------------
HealthAnswered(i) == probes[i].pc = "answered" /\ probes[i].who = "health"

WholeProbe(i) ==
  /\ listening
  /\ probes[i].who \in ProbeCallers
  /\ \A j \in ProbeIds \ {i} : probes[j].pc \in {"idle", "answered"}
  /\ probes[i].pc = "query" /\ probes[i].tries = 0
  /\ probes'[i].pc = "returned"

C23_ProbeLeavesStateUnchanged ==
  [][\A i \in ProbeIds : WholeProbe(i) => supabaseConfig' = supabaseConfig]_vars

\* ------------------------------------------------------------------------
\* C28  Every invocation of testConnection terminates, and one whose probe
\*      keeps throwing makes exactly maxRetries (3) attempts before it
\*      returns false, whatever earlier or concurrent invocations did.
\* ------------------------------------------------------------------------
\* invocation i has returned and its query threw at every attempt
ReturnedAfterThrowsOnly(i) ==
  /\ probes[i].pc \in {"returned", "answered"}
  /\ probes[i].threw = probes[i].tries

C28_ExactlyMaxRetriesAttempts ==
  \A i \in ProbeIds :
    ReturnedAfterThrowsOnly(i) =>
      /\ probes[i].tries = maxRetries
      /\ ~probes[i].result

\* ------------------------------------------------------------------------
\* C24  While the process runs, every GET /health is answered 200, for any
\*      number and rate of requests from any address.
\* ------------------------------------------------------------------------
C24_LivenessAlways200 ==
  (pc = "done" /\ req.ep = "app" /\ req.path = "/health") => response.status = 200

\* ------------------------------------------------------------------------
\* C25  For page >= 1 and limit in 1..100 the list operation asks for the
\*      rows (page-1)*limit .. (page-1)*limit + limit - 1 in the requested
\*      order and returns totalPages = ceil(total / limit), total being the
\*      counted number of matching rows; so totalPages >= 1 whenever a row
\*      matches.
\* ------------------------------------------------------------------------
IsListAnswer ==
  /\ pc = "done"
  /\ req.method = "call" /\ req.path = "getAllApplications"
  /\ response.status = 200

\* the number of rows that match the filter of the list call
MatchingRows ==
  Cardinality({k \in DOMAIN careerRows :
                 req.body.status = "" \/ careerRows[k].application_status = req.body.status})

C25_PageRange ==
  IsListAnswer =>
    LET from == (req.body.page - 1) * req.body.limit
    IN /\ calls.range = <<from, from + req.body.limit - 1>>
       /\ calls.ascending = (req.body.sortOrder = "asc")
       /\ Len(response.list) =
            IF MatchingRows <= from THEN 0
            ELSE IF MatchingRows - from < req.body.limit THEN MatchingRows - from
            ELSE req.body.limit
       /\ \A i, j \in DOMAIN response.list :
            i < j => IF req.body.sortOrder = "asc"
                     THEN response.list[i] < response.list[j]
                     ELSE response.list[i] > response.list[j]

C25_Pagination ==
  /\ C25_PageRange
  /\ IsListAnswer =>
       /\ ~response.pagination.total.null
       /\ response.pagination.total.n = MatchingRows
       /\ response.pagination.totalPages =
            (MatchingRows + req.body.limit - 1) \div req.body.limit
       /\ MatchingRows >= 1 => response.pagination.totalPages >= 1

\* ------------------------------------------------------------------------
\* C26  After the sanitizer has run no string field of the body contains
\*      'javascript:' (in any letter case) or a complete <script>...</script>
\*      element, also when removing one match brings a new one together.
\* ------------------------------------------------------------------------
HasJsPrefix(s) == \E i \in 1..Len(s) : MatchAt(s, i, JsPrefix)

HasScriptElement(s) ==
  \E i \in 1..Len(s) : TagMatchLen(s, i, ScriptOpen, ScriptClose) > 0

\* the sanitizer of the route has just run on the body
JustSanitized == pc = "validate" /\ "sanitize" \in Range(stages)

C26_SanitizerLeavesNoScript ==
  JustSanitized =>
    \A k \in DOMAIN body :
      body[k].def => ~HasJsPrefix(body[k].s) /\ ~HasScriptElement(body[k].s)

\* ------------------------------------------------------------------------
\* C27  The application number returned for a created career application
\*      is 'AC-' and the id of the inserted row in decimal, zero-padded to
\*      at least 6 digits; distinct ids give distinct numbers, also above
\*      999999.
\* ------------------------------------------------------------------------
IsCreatedAnswer ==
  /\ pc = "done"
  /\ req.ep = "career" /\ req.method = "POST"
  /\ response.status = 201

DigitValue(c) ==
  LET d == <<"0","1","2","3","4","5","6","7","8","9">>
  IN (CHOOSE i \in DOMAIN d : d[i] = c) - 1

\* the number a string of decimal digits denotes
RECURSIVE DecValue(_)
DecValue(s) ==
  IF s = <<>> THEN 0
  ELSE 10 * DecValue(SubSeq(s, 1, Len(s) - 1)) + DigitValue(s[Len(s)])

\* ids the returned number is compared with
OtherIds == {1, 42, 234567, 999999, 1000000, 1234567, 2234567}

C27_ApplicationNumber ==
  IsCreatedAnswer =>
    LET row == careerRows[Len(careerRows)]
        num == response.data.applicationNumber
        digits == SubSeq(num, 4, Len(num))
    IN /\ Len(careerRows) = req.rows + 1
       /\ response.data.id = row.id
       /\ SubSeq(num, 1, 3) = <<"A", "C", "-">>
       /\ Len(digits) >= 6
       /\ \A i \in DOMAIN digits : IsDigit(digits[i])
       /\ Len(digits) > 6 => digits[1] # "0"
       /\ DecValue(digits) = row.id.n
       /\ \A other \in OtherIds \ {row.id.n} :
            ApplicationNumber([t |-> "integer", n |-> other]) # num

\* a number was returned for a row whose id is above 999999
C27_Witness ==
  /\ IsCreatedAnswer
  /\ careerRows[Len(careerRows)].id.n > 999999
  /\ Len(response.data.applicationNumber) > 9

\* ------------------------------------------------------------------------
\* C29  updateApplicationStatus(id, status, notes) changes only
\*      application_status, updated_at and (for non-empty notes) admin_notes
\*      of the row with that id; every other field and row stays, and a
\*      call without notes or with empty notes keeps the admin_notes.
\* ------------------------------------------------------------------------
UpdatedFields == {"application_status", "updated_at", "admin_notes"}

\* the step is a call of updateApplicationStatus
UpdateStep == req'.method = "call" /\ req'.path = "updateApplicationStatus"

C29_UpdateStep ==
  UpdateStep =>
    /\ Len(careerRows') = Len(careerRows)
    /\ \A k \in DOMAIN careerRows :
         /\ k # req'.body.id => careerRows'[k] = careerRows[k]
         /\ \A f \in DOMAIN careerRows[k] \ UpdatedFields :
              careerRows'[k][f] = careerRows[k][f]
         /\ ~Truthy(req'.body.notes) =>
              careerRows'[k].admin_notes = careerRows[k].admin_notes
         /\ (k = req'.body.id /\ response'.status = 200) =>
              /\ careerRows'[k].application_status = req'.body.status
              /\ Truthy(req'.body.notes) =>
                   careerRows'[k].admin_notes = req'.body.notes
    /\ contactRows' = contactRows /\ files' = files

C29_UpdateFrame == [][C29_UpdateStep]_vars

\* a successful update with empty notes of a row that has notes, while the
\* table holds another row
C29_Witness ==
  /\ IsUpdateCall
  /\ response.status = 200
  /\ req.body.notes = Str(<<>>)
  /\ Len(careerRows) = 2
  /\ careerRows[req.body.id].admin_notes = Str(<<"c","a","l","l">>)
  /\ careerRows[req.body.id].application_status = req.body.status

\* ------------------------------------------------------------------------
\* C30  After any sequence of category, search and load-more events the
\*      grid shows exactly the first min(currentPage*6, n) of the n products
\*      that match the category and the search, every filter or search
\*      change sets currentPage to 1, and the load-more button is displayed
\*      exactly when some matching product is not shown.
\* ------------------------------------------------------------------------
\* the ids of the products that match the current category and search
MatchingProducts ==
  LET ok(k) == /\ pm.currentCategory = "all"
                  \/ productData[k].category = pm.currentCategory
               /\ \/ pm.currentSearch = <<>>
                  \/ IncludesText(productData[k].name, pm.currentSearch)
                  \/ IncludesText(productData[k].description, pm.currentSearch)
  IN SelectSeq([k \in DOMAIN productData |-> k], ok)

C30_Grid ==
  LET n == Len(MatchingProducts)
      shown == IF pm.currentPage * 6 < n THEN pm.currentPage * 6 ELSE n
  IN /\ pm.grid = [i \in 1..shown |-> productData[MatchingProducts[i]].id]
     /\ pm.loadMore <=> Len(pm.grid) < n

C30_PageReset ==
  (pm'.currentCategory # pm.currentCategory \/ pm'.currentSearch # pm.currentSearch)
    => pm'.currentPage = 1

C30_GridAndLoadMore ==
  /\ []C30_Grid
  /\ [][C30_PageReset]_vars

====
